---- MODULE Spec2Model ----
(***************************************************************************)
(* A model of the NATS wrapper of src/src/index.js: the request client     *)
(* call(), the stream provisioner ensureStreamForSubject() and the durable *)
(* service runner servicePersist().  JavaScript strings that the code      *)
(* inspects with regular expressions are sequences of one-character        *)
(* strings, so that the matching is computed and not assumed.              *)
(***************************************************************************)
EXTENDS Integers, Sequences, FiniteSets, TLC

VARIABLES
    defaultTimeout,     \* this.defaultTimeout
    nc,                 \* this.nc: 0 is null, n > 0 the n-th connection made
    nConnects,          \* connections the transport's connect() has handed out
    callPc,             \* where the call() in flight stands
    callIn,             \* the arguments of the call() in flight
    callTimeout,        \* the local `timeout` of call()
    callReqs,           \* nc.request() invocations made by the call() in flight
    callGot,            \* what the transport answered to the request
    callOut,            \* how the call() settled
    jsStreams,          \* the Broker's streams: name -> subjects
    ensured,            \* this._jsStreamsEnsured, per process
    ensPc,              \* where each ensureStreamForSubject() task stands
    ensIn,              \* its arguments
    ensName,            \* its local `streamName`
    ensResp,            \* the Broker's answer on its way to the task
    ensErr,             \* its local `e` (the error of streams.add)
    ensOut,             \* how it settled
    ensFaults,          \* Broker failures that were not "not found"/"in use"
    regPc,              \* where the servicePersist() in flight stands
    regBatch,           \* the methods of its handlers, in the order of Object.entries
    regIdx,             \* the method its for loop is at
    regOut,             \* how it settled
    consumers,          \* the Broker's consumers made by jsm.consumers.add
    subs,               \* this._subs
    loopPc,             \* where the message loop of each method stands
    loopMsg,            \* the message m the loop is processing
    loopLog,            \* what the loop has done for m, in order
    loopPrev,           \* how the loop's message before m ended
    cpPc,               \* where the callPersist() in flight stands
    cpIn,               \* its subject, data and options
    cpTimeout,          \* const timeout
    cpReplySub,         \* replySub: not made, open, or drained
    cpTimer,            \* the timer t of timeoutPromise
    cpPubs,             \* the js.publish calls it has made
    cpGot,              \* what ended its wait
    cpOut,              \* how it settled
    cpCalls,            \* the callPersist() calls made so far
    jsLog,              \* the messages the Broker holds in its streams, in order
    delivered,          \* how many of them the Broker has given to each durable consumer
    inboxWire,          \* the replies on their way to reply inboxes, in order
    backlog,            \* the messages stored while their subject had no consumer
    runKind,            \* what made the subscription under watch: service, servicePersist or on
    runArrived,         \* how many messages have been delivered to it
    runTaken,           \* how many of them its loop has taken
    loopKind,           \* what made the subscription of each method: service, servicePersist, on
    drainPc,            \* where the drain() or close() in flight stands
    subCalls,           \* the nc.subscribe calls of service() and on(): the subject and the
                        \* options passed, and what the caller had asked for
    evalIn,             \* the (name, method) pairs whose subjects are made
    evalOut,            \* the subjects made from them
    connPc,             \* where each operation that awaits this.connect() stands
    connOp,             \* what it does with the connection: subscribe, or initJetStream
    subsOn,             \* the connections that hold subscriptions of the instance
    js,                 \* this.js: the connection it was obtained from, 0 is null
    jsm,                \* this.jsm: the connection it was obtained from, 0 is null
    connsSince,         \* the connections made since the last drain() or close()
    shutCalls,          \* the drain() and close() calls made so far
    shutOn              \* the connection whose drain() or close() is awaited

callVars == <<defaultTimeout, nc, nConnects, callPc, callIn, callTimeout, callReqs,
             callGot, callOut>>
ensVars == <<jsStreams, ensured, ensPc, ensIn, ensName, ensResp, ensErr, ensOut, ensFaults>>
regVars == <<regPc, regBatch, regIdx, regOut, consumers>>
loopVars == <<subs, loopPc, loopMsg, loopLog, loopPrev>>
cpVars == <<cpPc, cpIn, cpTimeout, cpReplySub, cpTimer, cpPubs, cpGot, cpOut, cpCalls, jsLog>>
brokerVars == <<delivered, inboxWire, backlog>>
lifeVars == <<loopKind, drainPc, subCalls, evalIn, evalOut>>
connVars == <<connPc, connOp, subsOn, js, jsm, connsSince, shutCalls, shutOn>>
runVars == <<runKind, runArrived, runTaken, lifeVars, connVars>>
vars == <<callVars, ensVars, regVars, loopVars, cpVars, brokerVars, runVars>>

(***************************************************************************)
(* Strings                                                                 *)
(***************************************************************************)
Uppers == <<"A", "B", "C", "D", "E", "F", "G", "H", "I", "J", "K", "L", "M",
            "N", "O", "P", "Q", "R", "S", "T", "U", "V", "W", "X", "Y", "Z">>
Lowers == <<"a", "b", "c", "d", "e", "f", "g", "h", "i", "j", "k", "l", "m",
            "n", "o", "p", "q", "r", "s", "t", "u", "v", "w", "x", "y", "z">>
Digits == {"0", "1", "2", "3", "4", "5", "6", "7", "8", "9"}
Letters == {Uppers[i] : i \in 1..Len(Uppers)} \cup {Lowers[i] : i \in 1..Len(Lowers)}
\* the class \w of a JavaScript regular expression: [A-Za-z0-9_]
WordChars == Letters \cup Digits \cup {"_"}
\* the class [a-zA-Z0-9]
AlphaNum == Letters \cup Digits

\* how the flag i of a regular expression folds a character
Lower(c) ==
    IF \E i \in 1..Len(Uppers) : Uppers[i] = c
    THEN Lowers[CHOOSE i \in 1..Len(Uppers) : Uppers[i] = c]
    ELSE c

\* pat occurs in s at position i, compared as the flag i compares when ci holds
MatchAt(s, i, pat, ci) ==
    /\ i + Len(pat) - 1 <= Len(s)
    /\ \A k \in 1..Len(pat) :
          IF ci THEN Lower(s[i + k - 1]) = Lower(pat[k]) ELSE s[i + k - 1] = pat[k]

\* /\bpat\b/.test(s), for a pat that starts and ends with a word character
WordMatch(s, pat, ci) ==
    \E i \in 1..Len(s) :
        /\ MatchAt(s, i, pat, ci)
        /\ (i = 1 \/ s[i - 1] \notin WordChars)
        /\ (i + Len(pat) > Len(s) \/ s[i + Len(pat)] \notin WordChars)

S_timeout == <<"t", "i", "m", "e", "o", "u", "t">>
S_no_responders == <<"n", "o", " ", "r", "e", "s", "p", "o", "n", "d", "e", "r", "s">>
S_503 == <<"5", "0", "3">>
S_remote_error == <<"r", "e", "m", "o", "t", "e", " ", "e", "r", "r", "o", "r">>
S_RPC_timeout == <<"R", "P", "C", " ", "t", "i", "m", "e", "o", "u", "t">>
S_No_responders == <<"N", "o", " ", "r", "e", "s", "p", "o", "n", "d", "e", "r", "s">>
S_bad_JSON == <<"b", "a", "d", " ", "J", "S", "O", "N">>

\* texts the model feeds in as messages
S_boom == <<"b", "o", "o", "m">>
S_DB_Timeout == <<"D", "B", " ", "T", "i", "m", "e", "o", "u", "t">>
S_timeouts == <<"t", "i", "m", "e", "o", "u", "t", "s">>
S_5030 == <<"5", "0", "3", "0">>
S_timed_out == <<"t", "i", "m", "e", "d", " ", "o", "u", "t">>
S_503_Unavailable == <<"5", "0", "3", " ", "U", "n", "a", "v", "a", "i", "l", "a", "b", "l", "e">>
S_503_timeout == <<"5", "0", "3", " ", "t", "i", "m", "e", "o", "u", "t">>
S_math_add == <<"m", "a", "t", "h", ".", "a", "d", "d">>

(***************************************************************************)
(* JavaScript values                                                       *)
(***************************************************************************)
\* a value that may be undefined: a string ...
NoStr == [has |-> FALSE, s |-> <<>>]
Str(s) == [has |-> TRUE, s |-> s]
\* ... or an error code, which String() turns into text
NoCode == [t |-> "undef"]
StrCode(s) == [t |-> "str", s |-> s]
NumCode(n) == [t |-> "num", n |-> n]

\* x ?? dflt, for a string
OrElse(x, dflt) == IF x.has THEN x.s ELSE dflt
\* String(code ?? '')
CodeString(code) ==
    CASE code.t = "undef" -> ""
      [] code.t = "str" -> code.s
      [] code.t = "num" -> ToString(code.n)
\* code === 'text'
CodeIs(code, text) == code.t = "str" /\ code.s = text

\* decoded JSON values: leaves, and objects with the envelope's fields
Undef == [k |-> "undef", n |-> 0, s |-> <<>>]
Null == [k |-> "null", n |-> 0, s |-> <<>>]
Num(n) == [k |-> "num", n |-> n, s |-> <<>>]
Text(s) == [k |-> "str", n |-> 0, s |-> s]
Obj(ok, error, message, result) ==
    [k |-> "obj", __ok |-> ok, __error |-> error, message |-> message, result |-> result]

\* !v
Falsy(v) ==
    \/ v.k \in {"undef", "null"}
    \/ v.k = "num" /\ v.n = 0
    \/ v.k = "str" /\ v.s = <<>>

\* v.__error and v.__ok, as a condition
HasError(v) == v.k = "obj" /\ v.__error
HasOk(v) == v.k = "obj" /\ v.__ok

\* errors: what was thrown, and by whom
\*   origin "transport": rejected by nc.request; "codec": thrown by jc.decode;
\*   "connect": rejected by connect(); "rpc": made by call()
\*   an error made by call() has a message built from a fixed text, the timeout
\*   and the subject: message holds the text, timeout and subject the rest
NoTimeout == [has |-> FALSE, ms |-> 0]
JsError(origin, code, message) ==
    [origin |-> origin, code |-> code, message |-> message,
     timeout |-> NoTimeout, subject |-> <<>>]
RpcError(code, message, timeout, subject) ==
    [origin |-> "rpc", code |-> StrCode(code), message |-> Str(message),
     timeout |-> timeout, subject |-> subject]

\* message payloads on the wire: no bytes, bytes that are not JSON, or the JSON of v
NoBytes == [enc |-> "empty", v |-> Undef]
BadBytes == [enc |-> "invalid", v |-> Undef]
Json(v) == [enc |-> "json", v |-> v]

\* m.data && m.data.length ? jc.decode(m.data) : undefined
DecodeFails(data) == data.enc = "invalid"
\* a slip: no payload is decoded to null
Decode_EmptyIsNull(data) == IF data.enc = "json" THEN data.v ELSE Null
Decode(data) == IF data.enc = "json" THEN data.v ELSE Undef
SyntaxError == JsError("codec", NoCode, Str(S_bad_JSON))

Return(v) == [kind |-> "return", value |-> v]
Throw(e) == [kind |-> "throw", err |-> e]
None == [kind |-> "none"]

(***************************************************************************)
(* call(subject, data, options)                                            *)
(***************************************************************************)
DefaultTimeoutMs == 1000
MaxRetries == 2

\* options.timeout is undefined, a number or a string; options.retries is an
\* option the caller may pass
TimeoutOpts == {[t |-> "undef", v |-> 0], [t |-> "num", v |-> 50], [t |-> "str", v |-> 50]}
CallOptions == [timeout : TimeoutOpts, retries : 0..MaxRetries]
NoCall == [subject |-> <<>>, options |-> [timeout |-> [t |-> "undef", v |-> 0], retries |-> 0]]

\* the replies a responder may send ...
RemoteMessages ==
    {NoStr, Str(S_boom), Str(S_DB_Timeout), Str(S_timeouts), Str(S_503),
     Str(S_5030), Str(S_no_responders)}
Replies ==
    {NoBytes, BadBytes, Json(Null), Json(Num(0)), Json(Num(5)), Json(Text(S_boom)),
     Json(Obj(TRUE, FALSE, NoStr, Num(5))), Json(Obj(TRUE, FALSE, NoStr, Null)),
     Json(Obj(FALSE, FALSE, Str(S_boom), Num(5))), Json(Obj(TRUE, TRUE, Str(S_boom), Num(5)))}
    \cup {Json(Obj(FALSE, TRUE, m, Undef)) : m \in RemoteMessages}
\* ... and the errors nc.request may reject with
RequestCodes ==
    {NoCode, StrCode("REQ_TIMEOUT"), StrCode("NO_RESPONDERS"), StrCode("503"),
     NumCode(503), StrCode("CONNECTION_CLOSED")}
RequestMessages ==
    {NoStr, Str(S_boom), Str(S_timed_out), Str(S_DB_Timeout), Str(S_timeouts),
     Str(S_no_responders), Str(S_503_Unavailable), Str(S_5030), Str(S_503_timeout)}
RequestErrors == {JsError("transport", c, m) : c \in RequestCodes, m \in RequestMessages}
ConnectError == JsError("connect", StrCode("CONNECTION_REFUSED"), Str(S_boom))

\* a slip: the option is never looked at
EffectiveTimeout_DefaultOnly(options, dflt) == dflt

\* typeof options.timeout === 'number' ? options.timeout : this.defaultTimeout
EffectiveTimeout(options, dflt) ==
    IF options.timeout.t = "num" THEN options.timeout.v ELSE dflt

\* a slip: the Ok envelope is returned as it came
CallTry_ReturnEnvelope(data) ==
    IF DecodeFails(data) THEN Throw(SyntaxError)
    ELSE LET resp == Decode(data) IN
         IF Falsy(resp) THEN Return(resp)
         ELSE IF HasError(resp)
              THEN Throw([JsError("rpc", StrCode("RPC_REMOTE_ERROR"),
                                  Str(OrElse(resp.message, S_remote_error)))
                          EXCEPT !.origin = "remote"])
         ELSE Return(resp)

\* the try block of call(), once the request has been answered with data
CallTry(data) ==
    IF DecodeFails(data) THEN Throw(SyntaxError)
    ELSE LET resp == Decode(data) IN
         IF Falsy(resp) THEN Return(resp)
         ELSE IF HasError(resp)
              THEN Throw([JsError("rpc", StrCode("RPC_REMOTE_ERROR"),
                                  Str(OrElse(resp.message, S_remote_error)))
                          EXCEPT !.origin = "remote"])
         ELSE IF HasOk(resp) THEN Return(resp.result)
         ELSE Return(resp)

IsTimeoutError(err) ==
    \/ CodeIs(err.code, "REQ_TIMEOUT")
    \/ WordMatch(OrElse(err.message, <<>>), S_timeout, TRUE)

\* a slip: the numeric status 503 is not recognised in the code field
NoRespondersDetected_No503Code(err) ==
    \/ CodeIs(err.code, "NO_RESPONDERS")
    \/ WordMatch(OrElse(err.message, <<>>), S_no_responders, TRUE)
    \/ WordMatch(OrElse(err.message, <<>>), S_503, FALSE)

NoRespondersDetected(err) ==
    \/ CodeIs(err.code, "NO_RESPONDERS")
    \/ CodeString(err.code) = "NO_RESPONDERS"
    \/ CodeString(err.code) = "503"
    \/ WordMatch(OrElse(err.message, <<>>), S_no_responders, TRUE)
    \/ WordMatch(OrElse(err.message, <<>>), S_503, FALSE)

\* a slip: an error of no known kind is given a code of its own
CallCatch_CodeOther(err, timeout, subject) ==
    IF IsTimeoutError(err)
    THEN Throw(RpcError("RPC_TIMEOUT", S_RPC_timeout, [has |-> TRUE, ms |-> timeout], subject))
    ELSE IF NoRespondersDetected(err)
    THEN Throw(RpcError("RPC_NO_RESPONDERS", S_No_responders, NoTimeout, subject))
    ELSE Throw([err EXCEPT !.code = StrCode("RPC_ERROR")])

\* the catch block of call()
CallCatch(err, timeout, subject) ==
    IF IsTimeoutError(err)
    THEN Throw(RpcError("RPC_TIMEOUT", S_RPC_timeout, [has |-> TRUE, ms |-> timeout], subject))
    ELSE IF NoRespondersDetected(err)
    THEN Throw(RpcError("RPC_NO_RESPONDERS", S_No_responders, NoTimeout, subject))
    ELSE Throw(err)

\* the try and the catch: what call() settles with
CallSettle(got, timeout, subject) ==
    LET tried == IF got.kind = "reply" THEN CallTry(got.data) ELSE Throw(got.err)
    IN  IF tried.kind = "throw" THEN CallCatch(tried.err, timeout, subject) ELSE tried

\* const timeout = ...; nc.request(subject, jc.encode(data), { timeout })
IssueRequest ==
    /\ callTimeout' = EffectiveTimeout(callIn.options, defaultTimeout)
    /\ callReqs' = callReqs + 1
    /\ callPc' = "awaiting"

CallBegin(subject, options) ==
    /\ callPc = "idle"
    /\ callIn' = [subject |-> subject, options |-> options]
    /\ callPc' = "connect"
    /\ UNCHANGED <<defaultTimeout, nc, nConnects, callTimeout, callReqs, callGot, callOut>>

\* await this.connect(), connected already
CallConnected ==
    /\ callPc = "connect"
    /\ nc # 0
    /\ IssueRequest
    /\ UNCHANGED <<defaultTimeout, nc, nConnects, callIn, callGot, callOut>>

\* await this.connect(), not connected: connect(this.connectionConfig) is awaited
CallConnectStart ==
    /\ callPc = "connect"
    /\ nc = 0
    /\ callPc' = "connecting"
    /\ UNCHANGED <<defaultTimeout, nc, nConnects, callIn, callTimeout, callReqs, callGot, callOut>>

CallConnectResolve ==
    /\ callPc = "connecting"
    /\ nConnects' = nConnects + 1
    /\ nc' = nConnects + 1
    /\ IssueRequest
    /\ UNCHANGED <<defaultTimeout, callIn, callGot, callOut>>

CallConnectReject ==
    /\ callPc = "connecting"
    /\ callOut' = Throw(ConnectError)
    /\ callPc' = "done"
    /\ UNCHANGED <<defaultTimeout, nc, nConnects, callIn, callTimeout, callReqs, callGot>>

CallReply(data) ==
    /\ callPc = "awaiting"
    /\ callGot' = [kind |-> "reply", data |-> data]
    /\ callOut' = CallSettle(callGot', callTimeout, callIn.subject)
    /\ callPc' = "done"
    /\ UNCHANGED <<defaultTimeout, nc, nConnects, callIn, callTimeout, callReqs>>

CallReject(err) ==
    /\ callPc = "awaiting"
    /\ callGot' = [kind |-> "reject", err |-> err]
    /\ callOut' = CallSettle(callGot', callTimeout, callIn.subject)
    /\ callPc' = "done"
    /\ UNCHANGED <<defaultTimeout, nc, nConnects, callIn, callTimeout, callReqs>>

\* the caller has its result; the next call() of the instance may start
CallEnd ==
    /\ callPc = "done"
    /\ callPc' = "idle"
    /\ callIn' = NoCall
    /\ callTimeout' = 0
    /\ callReqs' = 0
    /\ callGot' = None
    /\ callOut' = None
    /\ UNCHANGED <<defaultTimeout, nc, nConnects>>

InitCallVars ==
    /\ defaultTimeout \in {DefaultTimeoutMs, 2 * DefaultTimeoutMs}
    /\ nc = 0
    /\ nConnects = 0
    /\ callPc = "idle"
    /\ callIn = NoCall
    /\ callTimeout = 0
    /\ callReqs = 0
    /\ callGot = None
    /\ callOut = None

(***************************************************************************)
(* ensureStreamForSubject(subject, opts)                                   *)
(***************************************************************************)
NumProcs == 2
NumEnsTasks == 2
MaxFaults == 1

\* processes, each with its own NATS instance, and the tasks that call
\* ensureStreamForSubject; a task runs in the process it names when it starts
Procs == 1..NumProcs
EnsTasks == 1..NumEnsTasks

S_a_dot_b == <<"a", ".", "b">>
S_a_dash_b == <<"a", "-", "b">>
S_custom == <<"X">>
S_js_stream_ == <<"j", "s", "_", "s", "t", "r", "e", "a", "m", "_">>

\* `js_stream_${String(subject).replace(/[^a-zA-Z0-9]/g, '_')}`
StreamNameForSubject(subject) ==
    S_js_stream_ \o [i \in 1..Len(subject) |->
                        IF subject[i] \in AlphaNum THEN subject[i] ELSE "_"]

\* the (subject, opts.streamName) pairs the tasks call with
EnsInputs ==
    {[subject |-> S_a_dot_b, streamName |-> NoStr],
     [subject |-> S_a_dot_b, streamName |-> Str(S_custom)],
     [subject |-> S_a_dash_b, streamName |-> NoStr]}
NoEnsIn == [subject |-> <<>>, streamName |-> NoStr, proc |-> 0]

\* opts.streamName || _streamNameForSubject(subject)
StreamNameOf(in) ==
    IF in.streamName.has /\ in.streamName.s # <<>>
    THEN in.streamName.s
    ELSE StreamNameForSubject(in.subject)

\* streamConfig, as far as the Broker's answer depends on it
StreamConfig(name, subject) == [name |-> name, subjects |-> {subject}]

BrokerError(op, why) == [op |-> op, why |-> why]
Found == [ok |-> TRUE, err |-> BrokerError("", "")]
Failed(op, why) == [ok |-> FALSE, err |-> BrokerError(op, why)]
NoResp == [ok |-> FALSE, err |-> BrokerError("", "none")]

\* jsm.streams.info(name) at the Broker
StreamsInfo(streams, name) ==
    IF \E st \in streams : st.name = name THEN Found ELSE Failed("info", "not found")

\* jsm.streams.add(cfg) at the Broker: the answers it may give, each with the
\* streams it leaves.  A name in use is refused, or accepted again when the
\* configuration is the same; a subject another stream holds is refused.
StreamsAdd(streams, cfg) ==
    IF \E st \in streams : st.name = cfg.name
    THEN {[resp |-> Failed("add", "name in use"), streams |-> streams]}
         \cup {[resp |-> Found, streams |-> streams] : x \in {y \in {1} : cfg \in streams}}
    ELSE IF \E st \in streams : st.subjects \cap cfg.subjects # {}
    THEN {[resp |-> Failed("add", "subjects overlap"), streams |-> streams]}
    ELSE {[resp |-> Found, streams |-> streams \cup {cfg}]}

EnsSet(f, t, v) == [f EXCEPT ![t] = v]

\* return streamName / throw e
EnsSettle(t, out) ==
    /\ ensOut' = EnsSet(ensOut, t, out)
    /\ ensPc' = EnsSet(ensPc, t, "done")

\* this._jsStreamsEnsured.add(streamName); return streamName
EnsCacheAndReturn(t) ==
    /\ ensured' = [ensured EXCEPT ![ensIn[t].proc] = @ \cup {ensName[t]}]
    /\ EnsSettle(t, [kind |-> "return", name |-> ensName[t]])

\* a task of process p calls ensureStreamForSubject and awaits initJetStream()
EnsBegin(t, p, in) ==
    /\ ensPc[t] = "idle"
    /\ ensIn' = EnsSet(ensIn, t, [subject |-> in.subject, streamName |-> in.streamName,
                                  proc |-> p])
    /\ ensPc' = EnsSet(ensPc, t, "start")
    /\ UNCHANGED <<jsStreams, ensured, ensName, ensResp, ensErr, ensOut, ensFaults>>

\* a slip: the cache is not looked into
EnsStart_NoCache(t) ==
    /\ ensPc[t] = "start"
    /\ ensName' = EnsSet(ensName, t, StreamNameOf(ensIn[t]))
    /\ ensPc' = EnsSet(ensPc, t, "info1")
    /\ UNCHANGED <<jsStreams, ensured, ensIn, ensResp, ensErr, ensFaults, ensOut>>

\* the name, the look into the cache, and the first streams.info
EnsStart(t) ==
    /\ ensPc[t] = "start"
    /\ ensName' = EnsSet(ensName, t, StreamNameOf(ensIn[t]))
    /\ IF ensName'[t] \in ensured[ensIn[t].proc]
       THEN EnsSettle(t, [kind |-> "return", name |-> ensName'[t]])
       ELSE ensPc' = EnsSet(ensPc, t, "info1") /\ UNCHANGED ensOut
    /\ UNCHANGED <<jsStreams, ensured, ensIn, ensResp, ensErr, ensFaults>>

\* the Broker answers a streams.info
BrokerInfo(t) ==
    /\ ensPc[t] \in {"info1", "info2"}
    /\ ensResp' = EnsSet(ensResp, t, StreamsInfo(jsStreams, ensName[t]))
    /\ ensPc' = EnsSet(ensPc, t, IF ensPc[t] = "info1" THEN "info1_r" ELSE "info2_r")
    /\ UNCHANGED <<jsStreams, ensured, ensIn, ensName, ensErr, ensOut, ensFaults>>

\* the Broker answers a streams.add
BrokerAdd(t) ==
    /\ ensPc[t] = "add"
    /\ \E a \in StreamsAdd(jsStreams, StreamConfig(ensName[t], ensIn[t].subject)) :
          /\ jsStreams' = a.streams
          /\ ensResp' = EnsSet(ensResp, t, a.resp)
    /\ ensPc' = EnsSet(ensPc, t, "add_r")
    /\ UNCHANGED <<ensured, ensIn, ensName, ensErr, ensOut, ensFaults>>

\* the Broker, or the way to it, fails a request for another reason
BrokerFault(t) ==
    /\ ensPc[t] \in {"info1", "info2", "add"}
    /\ ensFaults < MaxFaults
    /\ ensFaults' = ensFaults + 1
    /\ ensResp' = EnsSet(ensResp, t,
                         Failed(IF ensPc[t] = "add" THEN "add" ELSE "info", "unavailable"))
    /\ ensPc' = EnsSet(ensPc, t, CASE ensPc[t] = "info1" -> "info1_r"
                                   [] ensPc[t] = "info2" -> "info2_r"
                                   [] ensPc[t] = "add" -> "add_r")
    /\ UNCHANGED <<jsStreams, ensured, ensIn, ensName, ensErr, ensOut>>

\* a slip: the name is cached whatever streams.info has answered
EnsAfterInfo_CachesAnyway(t) ==
    /\ ensPc[t] = "info1_r"
    /\ ensured' = [ensured EXCEPT ![ensIn[t].proc] = @ \cup {ensName[t]}]
    /\ IF ensResp[t].ok
       THEN EnsSettle(t, [kind |-> "return", name |-> ensName[t]])
       ELSE ensPc' = EnsSet(ensPc, t, "add") /\ UNCHANGED ensOut
    /\ ensResp' = EnsSet(ensResp, t, NoResp)
    /\ UNCHANGED <<jsStreams, ensIn, ensName, ensErr, ensFaults>>

\* after the first streams.info: cache and return, or go on to streams.add
EnsAfterInfo(t) ==
    /\ ensPc[t] = "info1_r"
    /\ IF ensResp[t].ok
       THEN EnsCacheAndReturn(t)
       ELSE ensPc' = EnsSet(ensPc, t, "add") /\ UNCHANGED <<ensured, ensOut>>
    /\ ensResp' = EnsSet(ensResp, t, NoResp)
    /\ UNCHANGED <<jsStreams, ensIn, ensName, ensErr, ensFaults>>

\* a slip: a failed streams.add is thrown at once, with no second streams.info
EnsAfterAdd_NoRequery(t) ==
    /\ ensPc[t] = "add_r"
    /\ IF ensResp[t].ok
       THEN EnsCacheAndReturn(t) /\ UNCHANGED ensErr
       ELSE /\ ensErr' = EnsSet(ensErr, t, ensResp[t].err)
            /\ EnsSettle(t, [kind |-> "throw", err |-> ensResp[t].err])
            /\ UNCHANGED ensured
    /\ ensResp' = EnsSet(ensResp, t, NoResp)
    /\ UNCHANGED <<jsStreams, ensIn, ensName, ensFaults>>

\* after streams.add: cache and return, or keep e and ask streams.info again
EnsAfterAdd(t) ==
    /\ ensPc[t] = "add_r"
    /\ IF ensResp[t].ok
       THEN EnsCacheAndReturn(t) /\ UNCHANGED ensErr
       ELSE /\ ensErr' = EnsSet(ensErr, t, ensResp[t].err)
            /\ ensPc' = EnsSet(ensPc, t, "info2")
            /\ UNCHANGED <<ensured, ensOut>>
    /\ ensResp' = EnsSet(ensResp, t, NoResp)
    /\ UNCHANGED <<jsStreams, ensIn, ensName, ensFaults>>

\* what is thrown when the second streams.info fails too: a slip throws e2
EnsRethrow_Requery(e, e2) == e2

\* throw e
EnsRethrow(e, e2) == e

\* after the second streams.info: cache and return, or throw e
EnsAfterRequery(t) ==
    /\ ensPc[t] = "info2_r"
    /\ IF ensResp[t].ok
       THEN EnsCacheAndReturn(t)
       ELSE /\ EnsSettle(t, [kind |-> "throw", err |-> EnsRethrow(ensErr[t], ensResp[t].err)])
            /\ UNCHANGED ensured
    /\ ensResp' = EnsSet(ensResp, t, NoResp)
    /\ UNCHANGED <<jsStreams, ensIn, ensName, ensErr, ensFaults>>

(***************************************************************************)
(* servicePersist(name, handlers, serviceOpts): the registration           *)
(***************************************************************************)
S_math == <<"m", "a", "t", "h">>
S_add == <<"a", "d", "d">>
S_sub == <<"s", "u", "b">>
S__durable == <<"_", "d", "u", "r", "a", "b", "l", "e">>
S_inbox == <<"I", "N", "B", "O", "X">>
S_invalid_JSON_payload ==
    <<"i", "n", "v", "a", "l", "i", "d", " ", "J", "S", "O", "N", " ",
      "p", "a", "y", "l", "o", "a", "d">>

Methods == {S_add, S_sub}
\* Object.entries(handlers), for the handlers objects the model registers
Batches == {<<S_add>>, <<S_add, S_sub>>, <<S_sub, S_add>>}

\* a slip: the name and the method are joined with nothing between them
SubjectFor_NoDot(name, method) == name \o method
\* `${name}.${method}`
SubjectFor(name, method) == name \o <<".">> \o method
\* `${name}_${method}_durable`
DurableNameFor(name, method) == name \o <<"_">> \o method \o S__durable

RegMethod == regBatch[regIdx]

\* throw e, out of the for loop of servicePersist
RegThrow(e) ==
    /\ regPc' = "failed"
    /\ regOut' = [kind |-> "throw", err |-> e, method |-> RegMethod]

\* the head of the for loop at entry i: the end of the entries resolves
\* servicePersist, another entry calls ensureStreamForSubject(subject, streamOpts),
\* which the first task of the first process runs
RegIterate(i) ==
    IF i > Len(regBatch)
    THEN /\ regPc' = "done"
         /\ regOut' = [kind |-> "return"]
         /\ UNCHANGED <<regIdx, ensPc, ensIn, ensName, ensErr, ensOut>>
    ELSE /\ regPc' = "ensure"
         /\ regIdx' = i
         /\ ensIn' = EnsSet(ensIn, 1, [subject |-> SubjectFor(S_math, regBatch[i]),
                                       streamName |-> NoStr, proc |-> 1])
         /\ ensPc' = EnsSet(ensPc, 1, "start")
         /\ ensName' = EnsSet(ensName, 1, <<>>)
         /\ ensErr' = EnsSet(ensErr, 1, BrokerError("", ""))
         /\ ensOut' = EnsSet(ensOut, 1, None)
         /\ UNCHANGED regOut

\* servicePersist is called and awaits initJetStream()
RegBegin(batch) ==
    /\ regPc = "idle"
    /\ regBatch' = batch
    /\ regPc' = "init"
    /\ UNCHANGED <<regIdx, regOut, consumers, loopVars, ensVars>>

RegInit ==
    /\ regPc = "init"
    /\ RegIterate(1)
    /\ UNCHANGED <<regBatch, consumers, loopVars, jsStreams, ensured, ensResp, ensFaults>>

\* ensureStreamForSubject has settled: its error is thrown on, or js.subscribe is
\* called with the durable name
RegAfterEnsure ==
    /\ regPc = "ensure"
    /\ ensPc[1] = "done"
    /\ ensPc' = EnsSet(ensPc, 1, "idle")
    /\ IF ensOut[1].kind = "throw"
       THEN RegThrow(ensOut[1].err)
       ELSE regPc' = "subscribe1" /\ UNCHANGED regOut
    /\ UNCHANGED <<regBatch, regIdx, consumers, loopVars, jsStreams, ensured, ensIn,
                   ensName, ensResp, ensErr, ensOut, ensFaults>>

\* js.subscribe resolves with sub: this._subs.add(sub), the message loop of the
\* method is started, and the for loop goes to its next entry
RegSubscribed ==
    /\ regPc \in {"subscribe1", "subscribe2"}
    /\ subs' = subs \cup {RegMethod}
    /\ loopPc' = [loopPc EXCEPT ![RegMethod] = "waiting"]
    /\ RegIterate(regIdx + 1)
    /\ UNCHANGED <<regBatch, consumers, loopMsg, loopLog, loopPrev, jsStreams, ensured,
                   ensResp, ensFaults>>

\* the first js.subscribe rejects: jsm.consumers.add is called
RegSubscribeRejected ==
    /\ regPc = "subscribe1"
    /\ regPc' = "consumer"
    /\ UNCHANGED <<regBatch, regIdx, regOut, consumers, loopVars, ensVars>>

\* jsm.consumers.add resolves: js.subscribe is called again
RegConsumerAdded ==
    /\ regPc = "consumer"
    /\ consumers' = consumers \cup
          {[stream |-> ensName[1],
            durable_name |-> DurableNameFor(S_math, RegMethod),
            ack_policy |-> "explicit"]}
    /\ regPc' = "subscribe2"
    /\ UNCHANGED <<regBatch, regIdx, regOut, loopVars, ensVars>>

\* jsm.consumers.add rejects: throw e
RegConsumerRejected ==
    /\ regPc = "consumer"
    /\ RegThrow(BrokerError("consumers.add", "unavailable"))
    /\ UNCHANGED <<regBatch, regIdx, consumers, loopVars, ensVars>>

\* a slip: after the second js.subscribe has rejected the consumer is made again
RegResubscribeRejected_Retries ==
    /\ regPc = "subscribe2"
    /\ regPc' = "consumer"
    /\ UNCHANGED <<regBatch, regIdx, regOut, consumers, loopVars, ensVars>>

\* the second js.subscribe rejects: throw e
RegResubscribeRejected ==
    /\ regPc = "subscribe2"
    /\ RegThrow(BrokerError("subscribe", "unavailable"))
    /\ UNCHANGED <<regBatch, regIdx, consumers, loopVars, ensVars>>

(***************************************************************************)
(* servicePersist: the message loop of one method                          *)
(***************************************************************************)
\* what a handler may return, and what it may throw
HandlerResults == {Num(5)}
ThrownError(message) == [t |-> "Error", message |-> Str(message), s |-> <<>>]
ThrownString(s) == [t |-> "string", message |-> NoStr, s |-> s]
HandlerThrows == {ThrownError(S_boom), ThrownString(S_timed_out)}

\* the messages of the durable subscription: payload and reply subject
DurablePayloads == {NoBytes, BadBytes, Json(Num(5))}
ReplySubjects == {NoStr, Str(S_inbox)}
NoMsg == [data |-> NoBytes, reply |-> NoStr]

\* String(err)
StringOf(err) ==
    CASE err.t = "string" -> err.s
      [] OTHER -> err.message.s

\* err?.message ?? String(err)
ThrownMessage(err) == IF err.message.has THEN err.message.s ELSE StringOf(err)

\* { __ok: true, result }
OkEnvelope(result) == Obj(TRUE, FALSE, NoStr, result)
\* { __error: true, message: err?.message ?? String(err), stack, name }
ErrEnvelope(err) == Obj(FALSE, TRUE, Str(ThrownMessage(err)), Undef)
\* { __error: true, message: 'invalid JSON payload', stack }
InvalidPayloadEnvelope == Obj(FALSE, TRUE, Str(S_invalid_JSON_payload), Undef)

\* the entries of a loop's log: a step of the loop; m.respond(jc.encode(env)), which
\* threw or not and which publishes only to a reply subject
Ev(e) == [ev |-> e, env |-> Undef, threw |-> FALSE, sent |-> FALSE]
\* h(payload, m)
HandlerCalled(payload) == [ev |-> "handler_called", env |-> payload, threw |-> FALSE, sent |-> FALSE]
\* await h(payload, m) gives result, or throws err
HandlerSettled(e, v) == [ev |-> e, env |-> v, threw |-> FALSE, sent |-> FALSE]
RespondEv(msg, env, ok) ==
    [ev |-> "respond", env |-> env, threw |-> ~ok, sent |-> ok /\ msg.reply.has]

\* a slip: the message is left unacknowledged
OnDecodeFailure_NoAck(msg, ok) ==
    <<Ev("decode_failed"), RespondEv(msg, InvalidPayloadEnvelope, ok)>>

\* the catch of the decode: if (m.respond) m.respond(...), then m.ack() is called
OnDecodeFailure(msg, ok) ==
    <<Ev("decode_failed"), RespondEv(msg, InvalidPayloadEnvelope, ok), Ev("ack")>>

\* a slip: the message is acknowledged before the reply is sent
OnHandlerSuccess_AckFirst(msg, result, ok) ==
    <<HandlerSettled("handler_returned", result), Ev("ack")>>
    \o (IF msg.reply.has THEN <<RespondEv(msg, OkEnvelope(result), ok)>> ELSE <<>>)

\* after await h(payload, m): if (m.reply) m.respond(...), then m.ack() is called
OnHandlerSuccess(msg, result, ok) ==
    <<HandlerSettled("handler_returned", result)>>
    \o (IF msg.reply.has THEN <<RespondEv(msg, OkEnvelope(result), ok)>> ELSE <<>>)
    \o <<Ev("ack")>>

\* a slip: a failed message is handed back for redelivery
OnHandlerFailure_Nak(msg, err, ok) ==
    <<HandlerSettled("handler_threw", err)>>
    \o (IF msg.reply.has THEN <<RespondEv(msg, ErrEnvelope(err), ok)>> ELSE <<>>)
    \o <<Ev("nak")>>

\* the catch of the handler: if (m.reply) m.respond(...), then m.ack() is called
OnHandlerFailure(msg, err, ok) ==
    <<HandlerSettled("handler_threw", err)>>
    \o (IF msg.reply.has THEN <<RespondEv(msg, ErrEnvelope(err), ok)>> ELSE <<>>)
    \o <<Ev("ack")>>

LogHas(log, e) == \E i \in 1..Len(log) : log[i].ev = e
\* how the processing of a message ended
LogOutcome(log) ==
    CASE LogHas(log, "decode_failed") -> "decode_failed"
      [] LogHas(log, "handler_returned") -> "returned"
      [] LogHas(log, "handler_threw") -> "threw"
      [] OTHER -> "none"

\* m.respond may throw where it is called with a reply subject
RespondOutcomes(msg) == IF msg.reply.has THEN BOOLEAN ELSE {TRUE}

\* m.respond is a function of every message, and is called where the decode fails
DecodeRespondOutcomes(data) == IF DecodeFails(data) THEN BOOLEAN ELSE {TRUE}

\* a slip: a loop takes its next message only while no other loop is busy
LoopTake_Serial(method, data, reply, ok) ==
    /\ loopPc[method] = "waiting"
    /\ \A x \in Methods \ {method} : loopPc[x] \notin {"handler", "ack"}
    /\ LET msg == [data |-> data, reply |-> reply] IN
       /\ loopMsg' = [loopMsg EXCEPT ![method] = msg]
       /\ loopPrev' = [loopPrev EXCEPT ![method] = LogOutcome(loopLog[method])]
       /\ IF DecodeFails(data)
          THEN /\ loopLog' = [loopLog EXCEPT ![method] = OnDecodeFailure(msg, ok)]
               /\ loopPc' = [loopPc EXCEPT ![method] = "ack"]
          ELSE /\ loopLog' = [loopLog EXCEPT ![method] = <<HandlerCalled(Decode(data))>>]
               /\ loopPc' = [loopPc EXCEPT ![method] = "handler"]
    /\ UNCHANGED subs

\* the subscription yields m: the payload is decoded, and the handler is called or
\* the decode failure is answered
LoopTake(method, data, reply, ok) ==
    /\ loopPc[method] = "waiting"
    /\ LET msg == [data |-> data, reply |-> reply] IN
       /\ loopMsg' = [loopMsg EXCEPT ![method] = msg]
       /\ loopPrev' = [loopPrev EXCEPT ![method] = LogOutcome(loopLog[method])]
       /\ IF DecodeFails(data)
          THEN /\ loopLog' = [loopLog EXCEPT ![method] = OnDecodeFailure(msg, ok)]
               /\ loopPc' = [loopPc EXCEPT ![method] = "ack"]
          ELSE /\ loopLog' = [loopLog EXCEPT ![method] = <<HandlerCalled(Decode(data))>>]
               /\ loopPc' = [loopPc EXCEPT ![method] = "handler"]
    /\ UNCHANGED subs

HandlerReturn(method, result, ok) ==
    /\ loopPc[method] = "handler"
    /\ loopLog' = [loopLog EXCEPT ![method] = @ \o OnHandlerSuccess(loopMsg[method], result, ok)]
    /\ loopPc' = [loopPc EXCEPT ![method] = "ack"]
    /\ UNCHANGED <<subs, loopMsg, loopPrev>>

HandlerThrow(method, err, ok) ==
    /\ loopPc[method] = "handler"
    /\ loopLog' = [loopLog EXCEPT ![method] = @ \o OnHandlerFailure(loopMsg[method], err, ok)]
    /\ loopPc' = [loopPc EXCEPT ![method] = "ack"]
    /\ UNCHANGED <<subs, loopMsg, loopPrev>>

\* a slip: an acknowledgement that was rejected is attempted once more
AckSettle_Retries(method, ok) ==
    /\ loopPc[method] = "ack"
    /\ loopLog' = [loopLog EXCEPT ![method] =
                      @ \o (IF ok THEN <<Ev("settled")>> ELSE <<Ev("settle_failed"), Ev("ack")>>)]
    /\ loopPc' = [loopPc EXCEPT ![method] = IF ok THEN "waiting" ELSE "ack"]
    /\ UNCHANGED <<subs, loopMsg, loopPrev>>

\* await m.ack() (or what stands in its place) settles, resolved or rejected, and
\* the loop waits for its next message
AckSettle(method, ok) ==
    /\ loopPc[method] = "ack"
    /\ loopLog' = [loopLog EXCEPT ![method] =
                      @ \o <<Ev(IF ok THEN "settled" ELSE "settle_failed")>>]
    /\ loopPc' = [loopPc EXCEPT ![method] = "waiting"]
    /\ UNCHANGED <<subs, loopMsg, loopPrev>>

\* a slip: the loop ends and its subscription stays in this._subs
LoopEnd_KeepsSub(method) ==
    /\ loopPc[method] = "waiting"
    /\ loopPc' = [loopPc EXCEPT ![method] = "closed"]
    /\ UNCHANGED <<subs, loopMsg, loopLog, loopPrev>>

\* a slip: the subscription is removed while the handler of a message still runs
LoopEnd_Abrupt(method) ==
    /\ loopPc[method] \in {"waiting", "handler"}
    /\ loopPc' = [loopPc EXCEPT ![method] = "closed"]
    /\ subs' = subs \ {method}
    /\ UNCHANGED <<loopMsg, loopLog, loopPrev>>

\* the subscription ends or throws: finally this._subs.delete(s)
LoopEnd(method) ==
    /\ loopPc[method] = "waiting"
    /\ loopPc' = [loopPc EXCEPT ![method] = "closed"]
    /\ subs' = subs \ {method}
    /\ UNCHANGED <<loopMsg, loopLog, loopPrev>>

(***************************************************************************)
(* service(name, handlers, serviceOpts): the message loop of one method    *)
(***************************************************************************)
S_closed == <<"c", "l", "o", "s", "e", "d">>
\* what m.respond throws when it throws
RespondFailure == ThrownError(S_closed)

\* the catch around for await: the subscription is closed,
\* finally this._subs.delete(s)
SvcLoopBreaks(method) ==
    /\ loopPc' = [loopPc EXCEPT ![method] = "closed"]
    /\ subs' = subs \ {method}

\* a slip: the loop takes its next message while the handler of m still runs
SvcTake_Reentrant(method, data, reply, ok) ==
    /\ loopPc[method] \in {"waiting", "handler"}
    /\ LET msg == [data |-> data, reply |-> reply] IN
       /\ loopMsg' = [loopMsg EXCEPT ![method] = msg]
       /\ loopPrev' = [loopPrev EXCEPT ![method] = LogOutcome(loopLog[method])]
       /\ IF DecodeFails(data)
          THEN /\ loopLog' = [loopLog EXCEPT ![method] =
                                 <<Ev("decode_failed"),
                                   RespondEv(msg, InvalidPayloadEnvelope, ok)>>]
               /\ IF ok THEN UNCHANGED <<loopPc, subs>> ELSE SvcLoopBreaks(method)
          ELSE /\ loopLog' = [loopLog EXCEPT ![method] = <<HandlerCalled(Decode(data))>>]
               /\ loopPc' = [loopPc EXCEPT ![method] = "handler"]
               /\ UNCHANGED subs

\* the subscription yields m: the payload is decoded and the handler is called; a
\* payload that cannot be decoded is answered in the catch of the decode, with no
\* try around m.respond, and the loop goes on with continue
SvcTake(method, data, reply, ok) ==
    /\ loopPc[method] = "waiting"
    /\ LET msg == [data |-> data, reply |-> reply] IN
       /\ loopMsg' = [loopMsg EXCEPT ![method] = msg]
       /\ loopPrev' = [loopPrev EXCEPT ![method] = LogOutcome(loopLog[method])]
       /\ IF DecodeFails(data)
          THEN /\ loopLog' = [loopLog EXCEPT ![method] =
                                 <<Ev("decode_failed"),
                                   RespondEv(msg, InvalidPayloadEnvelope, ok)>>]
               /\ IF ok THEN UNCHANGED <<loopPc, subs>> ELSE SvcLoopBreaks(method)
          ELSE /\ loopLog' = [loopLog EXCEPT ![method] = <<HandlerCalled(Decode(data))>>]
               /\ loopPc' = [loopPc EXCEPT ![method] = "handler"]
               /\ UNCHANGED subs

\* a slip: the Err envelope of a failed reply is sent also where the Ok envelope
\* went out
SvcHandlerReturn_AlsoErr(method, result, ok, ok2) ==
    /\ loopPc[method] = "handler"
    /\ loopLog' = [loopLog EXCEPT ![method] =
          @ \o <<HandlerSettled("handler_returned", result),
                 RespondEv(loopMsg[method], OkEnvelope(result), ok),
                 RespondEv(loopMsg[method], ErrEnvelope(RespondFailure), ok2)>>]
    /\ loopPc' = [loopPc EXCEPT ![method] = "waiting"]
    /\ UNCHANGED <<subs, loopMsg, loopPrev>>

\* await h(payload, m) gives result: m.respond({ __ok: true, result }) in the try of
\* the handler, so that its throwing is caught like a throw of the handler and
\* answered with an Err envelope, in a try of its own
SvcHandlerReturn(method, result, ok, ok2) ==
    /\ loopPc[method] = "handler"
    /\ loopLog' = [loopLog EXCEPT ![method] =
          @ \o <<HandlerSettled("handler_returned", result),
                 RespondEv(loopMsg[method], OkEnvelope(result), ok)>>
            \o (IF ok THEN <<>>
                ELSE <<RespondEv(loopMsg[method], ErrEnvelope(RespondFailure), ok2)>>)]
    /\ loopPc' = [loopPc EXCEPT ![method] = "waiting"]
    /\ UNCHANGED <<subs, loopMsg, loopPrev>>

\* a slip: the loop is left when the handler throws
SvcHandlerThrow_Breaks(method, err, ok) ==
    /\ loopPc[method] = "handler"
    /\ loopLog' = [loopLog EXCEPT ![method] = @ \o <<HandlerSettled("handler_threw", err)>>]
    /\ SvcLoopBreaks(method)
    /\ UNCHANGED <<loopMsg, loopPrev>>

\* await h(payload, m) throws err: m.respond(remoteErr) in a try of its own
SvcHandlerThrow(method, err, ok) ==
    /\ loopPc[method] = "handler"
    /\ loopLog' = [loopLog EXCEPT ![method] =
          @ \o <<HandlerSettled("handler_threw", err),
                 RespondEv(loopMsg[method], ErrEnvelope(err), ok)>>]
    /\ loopPc' = [loopPc EXCEPT ![method] = "waiting"]
    /\ UNCHANGED <<subs, loopMsg, loopPrev>>

(***************************************************************************)
(* on(subject, handler, opts): the message loop of the subscription        *)
(***************************************************************************)
\* the subscription yields m: a payload that cannot be decoded is logged and the
\* loop goes on with continue; else the handler is called
OnTake(subject, data, reply) ==
    /\ loopPc[subject] = "waiting"
    /\ loopMsg' = [loopMsg EXCEPT ![subject] = [data |-> data, reply |-> reply]]
    /\ loopPrev' = [loopPrev EXCEPT ![subject] = LogOutcome(loopLog[subject])]
    /\ IF DecodeFails(data)
       THEN /\ loopLog' = [loopLog EXCEPT ![subject] = <<Ev("decode_failed")>>]
            /\ UNCHANGED loopPc
       ELSE /\ loopLog' = [loopLog EXCEPT ![subject] = <<HandlerCalled(Decode(data))>>]
            /\ loopPc' = [loopPc EXCEPT ![subject] = "handler"]
    /\ UNCHANGED subs

\* await h(payload, m) settles: what it throws is logged, nothing is sent
OnHandlerSettles(subject, e, v) ==
    /\ loopPc[subject] = "handler"
    /\ loopLog' = [loopLog EXCEPT ![subject] = @ \o <<HandlerSettled(e, v)>>]
    /\ loopPc' = [loopPc EXCEPT ![subject] = "waiting"]
    /\ UNCHANGED <<subs, loopMsg, loopPrev>>

(***************************************************************************)
(* service() and on(): the subscriptions they make                         *)
(***************************************************************************)
S_workers == <<"w", "o", "r", "k", "e", "r", "s">>
\* serviceOpts.queue, and opts.queue of on(): not given, null, a name, the empty string
QueueOpts == {Undef, Null, Text(S_workers), Text(<<>>)}
SubscribeOpts == [queue : QueueOpts]

\* a slip: the methods are always subscribed in the queue group of the service name
ServiceQueue_AlwaysName(name, serviceOpts) == Text(name)

\* const queue = serviceOpts.queue ?? name
ServiceQueue(name, serviceOpts) ==
    IF serviceOpts.queue.k \in {"undef", "null"} THEN Text(name) ELSE serviceOpts.queue

\* the loops of the methods ms are started, each on its subscription in this._subs
LoopsStarted(ms, kind) ==
    /\ subs' = subs \cup ms
    /\ loopPc' = [m \in Methods |-> IF m \in ms THEN "waiting" ELSE loopPc[m]]
    /\ loopKind' = [m \in Methods |-> IF m \in ms THEN kind ELSE loopKind[m]]
    /\ UNCHANGED <<loopMsg, loopLog, loopPrev>>

\* service(name, handlers, serviceOpts) on a connected instance: each method is
\* subscribed with { queue }, its subscription added to this._subs, its loop started
ServiceCall(name, batch, serviceOpts) ==
    /\ nc # 0
    /\ drainPc = "idle"
    /\ \A i \in 1..Len(batch) : loopPc[batch[i]] = "none"
    /\ subCalls' = subCalls \o
          [i \in 1..Len(batch) |->
              [api |-> "service", name |-> name, asked |-> serviceOpts,
               subject |-> SubjectFor(name, batch[i]),
               opts |-> [queue |-> ServiceQueue(name, serviceOpts)]]]
    /\ LoopsStarted({batch[i] : i \in 1..Len(batch)}, "service")
    /\ UNCHANGED <<runKind, runArrived, runTaken, drainPc, evalIn, evalOut, connVars>>

\* on(subject, handler, opts) on a connected instance: nc.subscribe(subject, opts),
\* the subscription added to this._subs, its loop started
OnCall(subject, opts) ==
    /\ nc # 0
    /\ drainPc = "idle"
    /\ loopPc[subject] = "none"
    /\ subCalls' = Append(subCalls, [api |-> "on", name |-> subject, asked |-> opts,
                                     subject |-> subject, opts |-> opts])
    /\ LoopsStarted({subject}, "on")
    /\ UNCHANGED <<runKind, runArrived, runTaken, drainPc, evalIn, evalOut, connVars>>

(***************************************************************************)
(* drain() and close()                                                     *)
(***************************************************************************)
\* drain() on a connected instance: await this.nc.drain()
DrainBegin ==
    /\ nc # 0
    /\ drainPc = "idle"
    /\ drainPc' = "nc_drain"
    /\ UNCHANGED nc

\* nc.drain() resolves: finally this.nc = null
DrainResolves ==
    /\ drainPc = "nc_drain"
    /\ drainPc' = "drained"
    /\ nc' = 0

\* nc.drain() rejects: await this.nc.close()
DrainRejects ==
    /\ drainPc = "nc_drain"
    /\ drainPc' = "nc_close"
    /\ UNCHANGED nc

\* a slip: what nc.close() throws in the catch of drain() is thrown on
DrainCloseSettles_Rethrows(ok) ==
    /\ drainPc = "nc_close"
    /\ drainPc' = IF ok THEN "drained" ELSE "threw"
    /\ nc' = 0

\* nc.close() resolves or rejects, in the catch of drain(): catch (_) {}, finally
\* this.nc = null
DrainCloseSettles(ok) ==
    /\ drainPc = "nc_close"
    /\ drainPc' = "drained"
    /\ nc' = 0

\* close() on a connected instance: await this.nc.close()
CloseBegin ==
    /\ nc # 0
    /\ drainPc = "idle"
    /\ drainPc' = "closing"
    /\ UNCHANGED nc

\* nc.close() resolves or rejects: a rejection is logged, finally this.nc = null
CloseSettles(ok) ==
    /\ drainPc = "closing"
    /\ drainPc' = "closed"
    /\ nc' = 0

(***************************************************************************)
(* connect() and initJetStream(), as the operations of an instance call    *)
(* them, with drain() and close()                                          *)
(***************************************************************************)
NumConnTasks == 2
MaxConnects == 3
MaxShutdowns == 3

\* the operations in flight: service(), on(), call(), emit() use this.nc once
\* connect() has resolved; callPersist() and servicePersist() go through
\* initJetStream()
ConnTasks == 1..NumConnTasks
ConnOps == {"subscribe", "jetstream"}

InitConnVars ==
    /\ connPc = [t \in ConnTasks |-> "idle"]
    /\ connOp = [t \in ConnTasks |-> "subscribe"]
    /\ subsOn = {}
    /\ js = 0
    /\ jsm = 0
    /\ connsSince = 0
    /\ shutCalls = 0
    /\ shutOn = 0

\* an operation awaits this.connect(): if (this.nc) return this.nc; else
\* connect(this.connectionConfig) is awaited
ConnectCall(t, op) ==
    /\ connPc[t] = "idle"
    /\ nc = 0 => nConnects + Cardinality({u \in ConnTasks : connPc[u] = "connecting"})
                    < MaxConnects
    /\ connOp' = [connOp EXCEPT ![t] = op]
    /\ connPc' = [connPc EXCEPT ![t] = IF nc # 0 THEN "ready" ELSE "connecting"]
    /\ UNCHANGED <<nc, nConnects, drainPc, subsOn, js, jsm, connsSince, shutCalls, shutOn>>

\* connect(this.connectionConfig) resolves with a new connection:
\* this.nc = await connect(...)
ConnectResolves(t) ==
    /\ connPc[t] = "connecting"
    /\ nConnects' = nConnects + 1
    /\ nc' = nConnects + 1
    /\ connsSince' = connsSince + 1
    /\ connPc' = [connPc EXCEPT ![t] = "ready"]
    /\ UNCHANGED <<drainPc, connOp, subsOn, js, jsm, shutCalls, shutOn>>

\* connect(this.connectionConfig) rejects: the operation throws
ConnectRejects(t) ==
    /\ connPc[t] = "connecting"
    /\ connPc' = [connPc EXCEPT ![t] = "failed"]
    /\ UNCHANGED <<nc, nConnects, drainPc, connOp, subsOn, js, jsm, connsSince, shutCalls,
                   shutOn>>

\* after await this.connect(): this.nc.subscribe(...), which throws where this.nc
\* has been set to null meanwhile
Subscribe(t) ==
    /\ connPc[t] = "ready"
    /\ connOp[t] = "subscribe"
    /\ IF nc = 0
       THEN connPc' = [connPc EXCEPT ![t] = "failed"] /\ UNCHANGED subsOn
       ELSE connPc' = [connPc EXCEPT ![t] = "done"] /\ subsOn' = subsOn \cup {nc}
    /\ UNCHANGED <<nc, nConnects, drainPc, connOp, js, jsm, connsSince, shutCalls, shutOn>>

\* initJetStream() after await this.connect(): if (this.js && this.jsm) return;
\* this.js = await this.nc.jetstream()
JetStreamInit(t) ==
    /\ connPc[t] = "ready"
    /\ connOp[t] = "jetstream"
    /\ IF js # 0 /\ jsm # 0
       THEN connPc' = [connPc EXCEPT ![t] = "done"] /\ UNCHANGED js
       ELSE IF nc = 0
       THEN connPc' = [connPc EXCEPT ![t] = "failed"] /\ UNCHANGED js
       ELSE connPc' = [connPc EXCEPT ![t] = "jsm"] /\ js' = nc
    /\ UNCHANGED <<nc, nConnects, drainPc, connOp, subsOn, jsm, connsSince, shutCalls, shutOn>>

\* this.jsm = await this.nc.jetstreamManager()
JetStreamManagerInit(t) ==
    /\ connPc[t] = "jsm"
    /\ IF nc = 0
       THEN connPc' = [connPc EXCEPT ![t] = "failed"] /\ UNCHANGED jsm
       ELSE connPc' = [connPc EXCEPT ![t] = "done"] /\ jsm' = nc
    /\ UNCHANGED <<nc, nConnects, drainPc, connOp, subsOn, js, connsSince, shutCalls, shutOn>>

\* the operation has returned or thrown
OpReturns(t) ==
    /\ connPc[t] \in {"done", "failed"}
    /\ connPc' = [connPc EXCEPT ![t] = "idle"]
    /\ UNCHANGED <<nc, nConnects, drainPc, connOp, subsOn, js, jsm, connsSince, shutCalls,
                   shutOn>>

\* drain() or close() is called
ShutdownCalled ==
    /\ shutCalls < MaxShutdowns
    /\ shutCalls' = shutCalls + 1

\* drain() or close() on an instance that holds no connection: if (!this.nc) return
ShutdownNoop ==
    /\ nc = 0
    /\ drainPc = "idle"
    /\ drainPc' = "returned"
    /\ UNCHANGED nc

\* the promise of drain() or close() has settled and its caller goes on
ShutdownReturns ==
    /\ drainPc \in {"drained", "closed", "returned"}
    /\ drainPc' = "idle"
    /\ UNCHANGED nc

\* the connection that drain() or close() was called on is closed, and its
\* subscriptions with it
ConnectionEnds ==
    /\ connsSince' = 0
    /\ subsOn' = subsOn \ {shutOn}
    /\ shutOn' = 0

(***************************************************************************)
(* callPersist(subject, data, options)                                     *)
(***************************************************************************)
MaxPersistCalls == 2

S_No_reply == <<"N", "o", " ", "r", "e", "p", "l", "y">>

\* data is undefined or a value; options.timeout as for call()
PersistData == {Undef, Num(5)}
PersistOptions == [timeout : TimeoutOpts]
NoPersistCall ==
    [subject |-> <<>>, data |-> Undef, options |-> [timeout |-> [t |-> "undef", v |-> 0]]]

\* this.nc.createInbox(): a subject no other call has
ReplyInbox == S_inbox \o <<ToString(cpCalls)>>

\* the error js.publish may reject with
PublishError == JsError("transport", StrCode("503"), Str(S_no_responders))

\* jc.encode(data ?? null)
EncodeOrNull(data) == Json(IF data.k = "undef" THEN Null ELSE data)

\* what callPersist does with the message m of the reply inbox
PersistTry(data) ==
    IF DecodeFails(data) THEN Throw(SyntaxError)
    ELSE LET resp == Decode(data) IN
         IF Falsy(resp) THEN Return(resp)
         ELSE IF HasError(resp)
              THEN Throw([JsError("rpc", StrCode("RPC_REMOTE_ERROR"),
                                  Str(OrElse(resp.message, S_remote_error)))
                          EXCEPT !.origin = "remote"])
         ELSE IF HasOk(resp) THEN Return(resp.result)
         ELSE Return(resp)

\* a slip: the reply subscription is cleaned up only where the call returns
PersistSettle_OnReturnOnly(got, out) ==
    /\ cpGot' = got
    /\ cpOut' = out
    /\ IF out.kind = "return"
       THEN cpReplySub' \in {"drained", "unsubscribed"} /\ subs' = subs \ {ReplyInbox}
       ELSE UNCHANGED <<cpReplySub, subs>>
    /\ cpPc' = "done"

\* finally: await replySub.drain(), or replySub.unsubscribe() where that rejects,
\* and this._subs.delete(replySub); the call settles
PersistSettle(got, out) ==
    /\ cpGot' = got
    /\ cpOut' = out
    /\ cpReplySub' \in {"drained", "unsubscribed"}
    /\ subs' = subs \ {ReplyInbox}
    /\ cpPc' = "done"

\* callPersist is called by a task of process p: connect() and initJetStream()
\* resolve, the timeout is fixed, and ensureStreamForSubject(subject) is awaited,
\* which the second task runs
PersistBegin(p, subject, data, options) ==
    /\ cpPc = "idle"
    /\ nc # 0
    /\ cpCalls < MaxPersistCalls
    /\ ensPc[2] = "idle"
    /\ cpCalls' = cpCalls + 1
    /\ cpIn' = [subject |-> subject, data |-> data, options |-> options]
    /\ cpTimeout' = EffectiveTimeout(options, defaultTimeout)
    /\ cpPc' = "ensure"
    /\ ensIn' = EnsSet(ensIn, 2, [subject |-> subject, streamName |-> NoStr, proc |-> p])
    /\ ensPc' = EnsSet(ensPc, 2, "start")
    /\ ensName' = EnsSet(ensName, 2, <<>>)
    /\ ensErr' = EnsSet(ensErr, 2, BrokerError("", ""))
    /\ ensOut' = EnsSet(ensOut, 2, None)
    /\ UNCHANGED <<cpReplySub, cpTimer, cpPubs, cpGot, cpOut, jsLog, subs,
                   jsStreams, ensured, ensResp, ensFaults>>

\* a slip: js.publish is called before the reply inbox is subscribed
PersistAfterEnsure_PublishFirst ==
    /\ cpPc = "ensure"
    /\ ensPc[2] = "done"
    /\ ensPc' = EnsSet(ensPc, 2, "idle")
    /\ IF ensOut[2].kind = "throw"
       THEN /\ cpOut' = Throw(ensOut[2].err)
            /\ cpPc' = "done"
            /\ UNCHANGED cpPubs
       ELSE /\ cpPubs' = cpPubs + 1
            /\ cpPc' = "publish"
            /\ UNCHANGED cpOut
    /\ UNCHANGED <<cpIn, cpTimeout, cpTimer, cpGot, cpCalls, jsLog, cpReplySub, subs,
                   jsStreams, ensured, ensIn, ensName, ensResp, ensErr, ensOut, ensFaults>>

\* ensureStreamForSubject has settled: its error is thrown on, or the reply inbox
\* is subscribed, added to this._subs, and js.publish is called with it as reply
PersistAfterEnsure ==
    /\ cpPc = "ensure"
    /\ ensPc[2] = "done"
    /\ ensPc' = EnsSet(ensPc, 2, "idle")
    /\ IF ensOut[2].kind = "throw"
       THEN /\ cpOut' = Throw(ensOut[2].err)
            /\ cpPc' = "done"
            /\ UNCHANGED <<cpReplySub, cpPubs, subs>>
       ELSE /\ cpReplySub' = "open"
            /\ subs' = subs \cup {ReplyInbox}
            /\ cpPubs' = cpPubs + 1
            /\ cpPc' = "publish"
            /\ UNCHANGED cpOut
    /\ UNCHANGED <<cpIn, cpTimeout, cpTimer, cpGot, cpCalls, jsLog,
                   jsStreams, ensured, ensIn, ensName, ensResp, ensErr, ensOut, ensFaults>>

\* a slip: the request is published with no reply address
PersistPublished_NoReply ==
    /\ cpPc = "publish"
    /\ jsLog' = Append(jsLog, [subject |-> cpIn.subject, data |-> EncodeOrNull(cpIn.data),
                               reply |-> NoStr])
    /\ cpTimer' = "armed"
    /\ cpPc' = "wait"
    /\ UNCHANGED <<cpIn, cpTimeout, cpReplySub, cpPubs, cpGot, cpOut, cpCalls, subs>>

\* the Broker stores the request and js.publish resolves: msgPromise waits for the
\* first message of replySub and the timer of timeoutPromise is set
PersistPublished ==
    /\ cpPc = "publish"
    /\ jsLog' = Append(jsLog, [subject |-> cpIn.subject, data |-> EncodeOrNull(cpIn.data),
                               reply |-> Str(ReplyInbox)])
    /\ cpTimer' = "armed"
    /\ cpPc' = "wait"
    /\ UNCHANGED <<cpIn, cpTimeout, cpReplySub, cpPubs, cpGot, cpOut, cpCalls, subs>>

\* js.publish rejects: the error goes through finally to the caller
PersistPublishRejected ==
    /\ cpPc = "publish"
    /\ PersistSettle([kind |-> "reject", err |-> PublishError], Throw(PublishError))
    /\ UNCHANGED <<cpIn, cpTimeout, cpTimer, cpPubs, cpCalls, jsLog>>

\* a slip: the timer is left set when the reply has come
PersistReply_TimerLeft(data) ==
    /\ cpPc = "wait"
    /\ cpReplySub = "open"
    /\ PersistSettle([kind |-> "reply", data |-> data], PersistTry(data))
    /\ UNCHANGED <<cpIn, cpTimeout, cpTimer, cpPubs, cpCalls, jsLog>>

\* replySub yields m: msgPromise resolves with it and its finally clears the
\* timer; the race gives m, which is decoded and told apart
PersistReply(data) ==
    /\ cpPc = "wait"
    /\ cpReplySub = "open"
    /\ cpTimer' = "cleared"
    /\ PersistSettle([kind |-> "reply", data |-> data], PersistTry(data))
    /\ UNCHANGED <<cpIn, cpTimeout, cpPubs, cpCalls, jsLog>>

\* what the timer rejects timeoutPromise with
PersistTimeoutError ==
    RpcError("RPC_TIMEOUT", S_RPC_timeout, [has |-> TRUE, ms |-> cpTimeout], cpIn.subject)

\* the timer fires: timeoutPromise rejects, which ends the wait if it still lasts
PersistTimerFires ==
    /\ cpTimer = "armed"
    /\ cpTimer' = "fired"
    /\ IF cpPc = "wait"
       THEN PersistSettle([kind |-> "timeout"], Throw(PersistTimeoutError))
       ELSE UNCHANGED <<cpGot, cpOut, cpReplySub, subs, cpPc>>
    /\ UNCHANGED <<cpIn, cpTimeout, cpPubs, cpCalls, jsLog>>

\* a slip: the end of replySub is taken for a reply without a payload
PersistReplySubEnds_AsEmpty ==
    /\ cpPc = "wait"
    /\ cpReplySub = "open"
    /\ cpTimer' = "cleared"
    /\ PersistSettle([kind |-> "ended"], Return(Undef))
    /\ UNCHANGED <<cpIn, cpTimeout, cpPubs, cpCalls, jsLog>>

\* replySub ends with no message: msgPromise resolves with undefined, its finally
\* clears the timer, and if (!m) throws RPC_NO_REPLY
PersistReplySubEnds ==
    /\ cpPc = "wait"
    /\ cpReplySub = "open"
    /\ cpTimer' = "cleared"
    /\ PersistSettle([kind |-> "ended"],
                     Throw(RpcError("RPC_NO_REPLY", S_No_reply, NoTimeout, <<>>)))
    /\ UNCHANGED <<cpIn, cpTimeout, cpPubs, cpCalls, jsLog>>

\* the caller has its result; the next callPersist() may start
PersistEnd ==
    /\ cpPc = "done"
    /\ cpPc' = "idle"
    /\ cpIn' = NoPersistCall
    /\ cpTimeout' = 0
    /\ cpReplySub' = "none"
    /\ cpTimer' = (IF cpTimer = "armed" THEN "armed" ELSE "none")
    /\ cpPubs' = 0
    /\ cpGot' = None
    /\ cpOut' = None
    /\ UNCHANGED <<cpCalls, jsLog, subs>>

(***************************************************************************)
(* Initial states and specifications                                       *)
(***************************************************************************)
InitEnsVars ==
    /\ jsStreams = {}
    /\ ensured = [p \in Procs |-> {}]
    /\ ensPc = [t \in EnsTasks |-> "idle"]
    /\ ensIn = [t \in EnsTasks |-> NoEnsIn]
    /\ ensName = [t \in EnsTasks |-> <<>>]
    /\ ensResp = [t \in EnsTasks |-> NoResp]
    /\ ensErr = [t \in EnsTasks |-> BrokerError("", "")]
    /\ ensOut = [t \in EnsTasks |-> None]
    /\ ensFaults = 0

InitRegVars ==
    /\ regPc = "idle"
    /\ regBatch = <<>>
    /\ regIdx = 0
    /\ regOut = None
    /\ consumers = {}

InitLoopVars ==
    /\ subs = {}
    /\ loopPc = [m \in Methods |-> "none"]
    /\ loopMsg = [m \in Methods |-> NoMsg]
    /\ loopLog = [m \in Methods |-> <<>>]
    /\ loopPrev = [m \in Methods |-> "none"]

\* no subscription made by this instance yet, no drain() and no close() called
InitLifeVars ==
    /\ loopKind = [m \in Methods |-> "none"]
    /\ drainPc = "idle"
    /\ subCalls = <<>>
    /\ evalIn = <<>>
    /\ evalOut = <<>>
    /\ InitConnVars

InitCpVars ==
    /\ cpPc = "idle"
    /\ cpIn = NoPersistCall
    /\ cpTimeout = 0
    /\ cpReplySub = "none"
    /\ cpTimer = "none"
    /\ cpPubs = 0
    /\ cpGot = None
    /\ cpOut = None
    /\ cpCalls = 0
    /\ jsLog = <<>>
    /\ delivered = [m \in Methods |-> 0]
    /\ inboxWire = <<>>
    /\ backlog = {}
    /\ runKind = "none"
    /\ runArrived = 0
    /\ runTaken = 0
    /\ InitLifeVars

\* an instance after construction
InitCall == InitCallVars /\ InitEnsVars /\ InitRegVars /\ InitLoopVars /\ InitCpVars

NextCall ==
    \/ \E options \in CallOptions :
          CallBegin(S_math_add, options) /\ UNCHANGED <<runVars, brokerVars, ensVars, regVars, loopVars, cpVars>>
    \/ CallConnected /\ UNCHANGED <<runVars, brokerVars, ensVars, regVars, loopVars, cpVars>>
    \/ CallConnectStart /\ UNCHANGED <<runVars, brokerVars, ensVars, regVars, loopVars, cpVars>>
    \/ CallConnectResolve /\ UNCHANGED <<runVars, brokerVars, ensVars, regVars, loopVars, cpVars>>
    \/ CallConnectReject /\ UNCHANGED <<runVars, brokerVars, ensVars, regVars, loopVars, cpVars>>
    \/ \E data \in Replies : CallReply(data) /\ UNCHANGED <<runVars, brokerVars, ensVars, regVars, loopVars, cpVars>>
    \/ \E err \in RequestErrors : CallReject(err) /\ UNCHANGED <<runVars, brokerVars, ensVars, regVars, loopVars, cpVars>>
    \/ CallEnd /\ UNCHANGED <<runVars, brokerVars, ensVars, regVars, loopVars, cpVars>>

SpecCall == InitCall /\ [][NextCall]_vars

\* instances whose initJetStream() has resolved, one per process; the Broker may
\* hold the stream of a subject from an earlier run
InitEnsure ==
    /\ InitCallVars /\ InitRegVars /\ InitLoopVars /\ InitCpVars
    /\ jsStreams \in {{}, {StreamConfig(StreamNameForSubject(S_a_dot_b), S_a_dot_b)}}
    /\ ensured = [p \in Procs |-> {}]
    /\ ensPc = [t \in EnsTasks |-> "idle"]
    /\ ensIn = [t \in EnsTasks |-> NoEnsIn]
    /\ ensName = [t \in EnsTasks |-> <<>>]
    /\ ensResp = [t \in EnsTasks |-> NoResp]
    /\ ensErr = [t \in EnsTasks |-> BrokerError("", "")]
    /\ ensOut = [t \in EnsTasks |-> None]
    /\ ensFaults = 0

NextEnsure ==
    \/ \E t \in EnsTasks, p \in Procs, in \in EnsInputs :
          EnsBegin(t, p, in) /\ UNCHANGED <<runVars, brokerVars, callVars, regVars, loopVars, cpVars>>
    \/ \E t \in EnsTasks : EnsStart(t) /\ UNCHANGED <<runVars, brokerVars, callVars, regVars, loopVars, cpVars>>
    \/ \E t \in EnsTasks : BrokerInfo(t) /\ UNCHANGED <<runVars, brokerVars, callVars, regVars, loopVars, cpVars>>
    \/ \E t \in EnsTasks : BrokerAdd(t) /\ UNCHANGED <<runVars, brokerVars, callVars, regVars, loopVars, cpVars>>
    \/ \E t \in EnsTasks : BrokerFault(t) /\ UNCHANGED <<runVars, brokerVars, callVars, regVars, loopVars, cpVars>>
    \/ \E t \in EnsTasks : EnsAfterInfo(t) /\ UNCHANGED <<runVars, brokerVars, callVars, regVars, loopVars, cpVars>>
    \/ \E t \in EnsTasks : EnsAfterAdd(t) /\ UNCHANGED <<runVars, brokerVars, callVars, regVars, loopVars, cpVars>>
    \/ \E t \in EnsTasks : EnsAfterRequery(t) /\ UNCHANGED <<runVars, brokerVars, callVars, regVars, loopVars, cpVars>>

SpecEnsure == InitEnsure /\ [][NextEnsure]_vars

\* a connected instance whose initJetStream() resolves
InitConnected ==
    /\ defaultTimeout = DefaultTimeoutMs
    /\ nc = 1
    /\ nConnects = 1
    /\ callPc = "idle"
    /\ callIn = NoCall
    /\ callTimeout = 0
    /\ callReqs = 0
    /\ callGot = None
    /\ callOut = None

\* a connected instance and a Broker without streams
InitRegister == InitConnected /\ InitEnsVars /\ InitRegVars /\ InitLoopVars /\ InitCpVars

\* servicePersist('math', handlers): the steps of ensureStreamForSubject are those
\* of the registration's call of it; a loop that was started may end
NextRegister ==
    \/ \E batch \in Batches : RegBegin(batch) /\ UNCHANGED <<runVars, brokerVars, callVars, cpVars>>
    \/ RegInit /\ UNCHANGED <<runVars, brokerVars, callVars, cpVars>>
    \/ EnsStart(1) /\ UNCHANGED <<runVars, brokerVars, callVars, regVars, loopVars, cpVars>>
    \/ BrokerInfo(1) /\ UNCHANGED <<runVars, brokerVars, callVars, regVars, loopVars, cpVars>>
    \/ BrokerAdd(1) /\ UNCHANGED <<runVars, brokerVars, callVars, regVars, loopVars, cpVars>>
    \/ BrokerFault(1) /\ UNCHANGED <<runVars, brokerVars, callVars, regVars, loopVars, cpVars>>
    \/ EnsAfterInfo(1) /\ UNCHANGED <<runVars, brokerVars, callVars, regVars, loopVars, cpVars>>
    \/ EnsAfterAdd(1) /\ UNCHANGED <<runVars, brokerVars, callVars, regVars, loopVars, cpVars>>
    \/ EnsAfterRequery(1) /\ UNCHANGED <<runVars, brokerVars, callVars, regVars, loopVars, cpVars>>
    \/ RegAfterEnsure /\ UNCHANGED <<runVars, brokerVars, callVars, cpVars>>
    \/ RegSubscribed /\ UNCHANGED <<runVars, brokerVars, callVars, cpVars>>
    \/ RegSubscribeRejected /\ UNCHANGED <<runVars, brokerVars, callVars, cpVars>>
    \/ RegConsumerAdded /\ UNCHANGED <<runVars, brokerVars, callVars, cpVars>>
    \/ RegConsumerRejected /\ UNCHANGED <<runVars, brokerVars, callVars, cpVars>>
    \/ RegResubscribeRejected /\ UNCHANGED <<runVars, brokerVars, callVars, cpVars>>
    \/ \E method \in Methods : LoopEnd(method) /\ UNCHANGED <<runVars, brokerVars, callVars, ensVars, regVars, cpVars>>

SpecRegister == InitRegister /\ [][NextRegister]_vars

SeqRange(q) == {q[i] : i \in 1..Len(q)}
StreamOfMethod(method) ==
    StreamConfig(StreamNameForSubject(SubjectFor(S_math, method)), SubjectFor(S_math, method))

\* the state in which servicePersist('math', handlers) has resolved, with no
\* request of it refused
Registered(batch) ==
    /\ jsStreams = {StreamOfMethod(m) : m \in SeqRange(batch)}
    /\ ensured = [p \in Procs |->
                     IF p = 1 THEN {StreamOfMethod(m).name : m \in SeqRange(batch)} ELSE {}]
    /\ ensPc = [t \in EnsTasks |-> "idle"]
    /\ ensIn = [t \in EnsTasks |->
                   IF t = 1
                   THEN [subject |-> SubjectFor(S_math, batch[Len(batch)]),
                         streamName |-> NoStr, proc |-> 1]
                   ELSE NoEnsIn]
    /\ ensName = [t \in EnsTasks |->
                     IF t = 1 THEN StreamOfMethod(batch[Len(batch)]).name ELSE <<>>]
    /\ ensResp = [t \in EnsTasks |-> NoResp]
    /\ ensErr = [t \in EnsTasks |-> BrokerError("", "")]
    /\ ensOut = [t \in EnsTasks |->
                    IF t = 1
                    THEN [kind |-> "return", name |-> StreamOfMethod(batch[Len(batch)]).name]
                    ELSE None]
    /\ ensFaults = 0
    /\ regPc = "done"
    /\ regBatch = batch
    /\ regIdx = Len(batch)
    /\ regOut = [kind |-> "return"]
    /\ consumers = {}
    /\ subs = SeqRange(batch)
    /\ loopPc = [m \in Methods |-> IF m \in SeqRange(batch) THEN "waiting" ELSE "none"]
    /\ loopMsg = [m \in Methods |-> NoMsg]
    /\ loopLog = [m \in Methods |-> <<>>]
    /\ loopPrev = [m \in Methods |-> "none"]

\* a service whose servicePersist('math', handlers) has resolved
InitDurable == InitConnected /\ InitCpVars /\ \E batch \in {<<S_add>>, <<S_add, S_sub>>} : Registered(batch)

\* the message loops of the registered methods
NextDurable ==
    \/ \E method \in Methods, data \in DurablePayloads, reply \in ReplySubjects :
          \E ok \in DecodeRespondOutcomes(data) :
             LoopTake(method, data, reply, ok) /\ UNCHANGED <<runVars, brokerVars, callVars, ensVars, regVars, cpVars>>
    \/ \E method \in Methods, result \in HandlerResults :
          \E ok \in RespondOutcomes(loopMsg[method]) :
             HandlerReturn(method, result, ok) /\ UNCHANGED <<runVars, brokerVars, callVars, ensVars, regVars, cpVars>>
    \/ \E method \in Methods, err \in HandlerThrows :
          \E ok \in RespondOutcomes(loopMsg[method]) :
             HandlerThrow(method, err, ok) /\ UNCHANGED <<runVars, brokerVars, callVars, ensVars, regVars, cpVars>>
    \/ \E method \in Methods, ok \in BOOLEAN :
          AckSettle(method, ok) /\ UNCHANGED <<runVars, brokerVars, callVars, ensVars, regVars, cpVars>>
    \/ \E method \in Methods : LoopEnd(method) /\ UNCHANGED <<runVars, brokerVars, callVars, ensVars, regVars, cpVars>>

SpecDurable == InitDurable /\ [][NextDurable]_vars

\* a connected instance that makes one remote call at a time, call() or
\* callPersist(), against a Broker without streams
InitClient ==
    InitConnected /\ InitEnsVars /\ InitRegVars /\ InitLoopVars /\ InitCpVars

NextClient ==
    \/ \E options \in CallOptions :
          /\ cpPc = "idle"
          /\ CallBegin(S_math_add, options)
          /\ UNCHANGED <<runVars, brokerVars, ensVars, regVars, loopVars, cpVars>>
    \/ CallConnected /\ UNCHANGED <<runVars, brokerVars, ensVars, regVars, loopVars, cpVars>>
    \/ \E data \in Replies : CallReply(data) /\ UNCHANGED <<runVars, brokerVars, ensVars, regVars, loopVars, cpVars>>
    \/ \E err \in RequestErrors : CallReject(err) /\ UNCHANGED <<runVars, brokerVars, ensVars, regVars, loopVars, cpVars>>
    \/ CallEnd /\ UNCHANGED <<runVars, brokerVars, ensVars, regVars, loopVars, cpVars>>
    \/ \E p \in Procs, data \in PersistData, options \in PersistOptions :
          /\ callPc = "idle"
          /\ PersistBegin(p, S_math_add, data, options)
          /\ UNCHANGED <<runVars, brokerVars, callVars, regVars, loopPc, loopMsg, loopLog, loopPrev>>
    \/ EnsStart(2) /\ UNCHANGED <<runVars, brokerVars, callVars, regVars, loopVars, cpVars>>
    \/ BrokerInfo(2) /\ UNCHANGED <<runVars, brokerVars, callVars, regVars, loopVars, cpVars>>
    \/ BrokerAdd(2) /\ UNCHANGED <<runVars, brokerVars, callVars, regVars, loopVars, cpVars>>
    \/ BrokerFault(2) /\ UNCHANGED <<runVars, brokerVars, callVars, regVars, loopVars, cpVars>>
    \/ EnsAfterInfo(2) /\ UNCHANGED <<runVars, brokerVars, callVars, regVars, loopVars, cpVars>>
    \/ EnsAfterAdd(2) /\ UNCHANGED <<runVars, brokerVars, callVars, regVars, loopVars, cpVars>>
    \/ EnsAfterRequery(2) /\ UNCHANGED <<runVars, brokerVars, callVars, regVars, loopVars, cpVars>>
    \/ PersistAfterEnsure /\ UNCHANGED <<runVars, brokerVars, callVars, regVars, loopPc, loopMsg, loopLog, loopPrev>>
    \/ PersistPublished /\ UNCHANGED <<runVars, brokerVars, callVars, ensVars, regVars, loopPc, loopMsg, loopLog, loopPrev>>
    \/ PersistPublishRejected
          /\ UNCHANGED <<runVars, brokerVars, callVars, ensVars, regVars, loopPc, loopMsg, loopLog, loopPrev>>
    \/ \E data \in Replies :
          PersistReply(data)
          /\ UNCHANGED <<runVars, brokerVars, callVars, ensVars, regVars, loopPc, loopMsg, loopLog, loopPrev>>
    \/ PersistTimerFires
          /\ UNCHANGED <<runVars, brokerVars, callVars, ensVars, regVars, loopPc, loopMsg, loopLog, loopPrev>>
    \/ PersistReplySubEnds
          /\ UNCHANGED <<runVars, brokerVars, callVars, ensVars, regVars, loopPc, loopMsg, loopLog, loopPrev>>
    \/ PersistEnd /\ UNCHANGED <<runVars, brokerVars, callVars, ensVars, regVars, loopVars>>

SpecClient == InitClient /\ [][NextClient]_vars

(***************************************************************************)
(* callPersist() of one process against servicePersist() of another        *)
(***************************************************************************)
\* the replies a step of a message loop has sent, as the Broker carries them
SentReplies(before, after) ==
    LET new == SubSeq(after, Len(before) + 1, Len(after))
        sent == SelectSeq(new, LAMBDA e : e.ev = "respond" /\ e.sent)
    IN  [i \in 1..Len(sent) |-> Json(sent[i].env)]

\* the Broker stores the published request; it is backlog when its subject has no
\* consumer yet
StoreRequest ==
    /\ PersistPublished
    /\ backlog' = IF loopPc[S_add] = "none" THEN backlog \cup {Len(jsLog) + 1} ELSE backlog
    /\ UNCHANGED <<delivered, inboxWire>>

\* a slip: the consumer starts at the messages that come after it was made
DeliverStored_SkipBacklog(method) ==
    /\ delivered[method] < Len(jsLog)
    /\ LET m == jsLog[delivered[method] + 1] IN
          /\ m.subject = SubjectFor(S_math, method)
          /\ IF delivered[method] + 1 \in backlog
             THEN UNCHANGED loopVars
             ELSE LoopTake(method, m.data, m.reply, TRUE)
    /\ delivered' = [delivered EXCEPT ![method] = @ + 1]
    /\ UNCHANGED <<inboxWire, backlog>>

\* the Broker gives the durable consumer of a method the next message of the log
DeliverStored(method) ==
    /\ delivered[method] < Len(jsLog)
    /\ LET m == jsLog[delivered[method] + 1] IN
          /\ m.subject = SubjectFor(S_math, method)
          /\ LoopTake(method, m.data, m.reply, TRUE)
    /\ delivered' = [delivered EXCEPT ![method] = @ + 1]
    /\ UNCHANGED <<inboxWire, backlog>>

\* the handler settles, and what the loop has sent is on its way to the reply inbox
ServiceReturns(method, result, ok) ==
    /\ HandlerReturn(method, result, ok)
    /\ inboxWire' = inboxWire \o
          [i \in 1..Len(SentReplies(loopLog[method], loopLog'[method])) |->
              [to |-> loopMsg[method].reply.s,
               data |-> SentReplies(loopLog[method], loopLog'[method])[i]]]
    /\ UNCHANGED <<delivered, backlog>>

ServiceThrows(method, err, ok) ==
    /\ HandlerThrow(method, err, ok)
    /\ inboxWire' = inboxWire \o
          [i \in 1..Len(SentReplies(loopLog[method], loopLog'[method])) |->
              [to |-> loopMsg[method].reply.s,
               data |-> SentReplies(loopLog[method], loopLog'[method])[i]]]
    /\ UNCHANGED <<delivered, backlog>>

\* a slip: the call that waits takes the reply whatever inbox it is addressed to
ReplyArrives_AnyInbox ==
    /\ inboxWire # <<>>
    /\ cpReplySub = "open"
    /\ PersistReply(Head(inboxWire).data)
    /\ inboxWire' = Tail(inboxWire)
    /\ UNCHANGED <<delivered, backlog>>

\* a reply reaches the inbox of the call that waits for it ...
ReplyArrives ==
    /\ inboxWire # <<>>
    /\ cpReplySub = "open"
    /\ Head(inboxWire).to = ReplyInbox
    /\ PersistReply(Head(inboxWire).data)
    /\ inboxWire' = Tail(inboxWire)
    /\ UNCHANGED <<delivered, backlog>>

\* ... or an inbox that has no subscription any more, and is lost
ReplyLost ==
    /\ inboxWire # <<>>
    /\ ~(cpReplySub = "open" /\ Head(inboxWire).to = ReplyInbox)
    /\ inboxWire' = Tail(inboxWire)
    /\ UNCHANGED <<delivered, backlog>>

BrokerDelivers == DeliverStored(S_add) /\ UNCHANGED <<runVars, callVars, ensVars, regVars, cpVars>>

HandlerSettles ==
    \/ \E result \in HandlerResults, ok \in BOOLEAN :
          ServiceReturns(S_add, result, ok) /\ UNCHANGED <<runVars, callVars, ensVars, regVars, cpVars>>
    \/ \E err \in HandlerThrows, ok \in BOOLEAN :
          ServiceThrows(S_add, err, ok) /\ UNCHANGED <<runVars, callVars, ensVars, regVars, cpVars>>

AckSettles ==
    \E ok \in BOOLEAN :
       AckSettle(S_add, ok) /\ UNCHANGED <<runVars, brokerVars, callVars, ensVars, regVars, cpVars>>

\* two connected instances, the caller in process 2 and the service in process 1,
\* and a Broker without streams
InitPersistRpc ==
    InitConnected /\ InitEnsVars /\ InitRegVars /\ InitLoopVars /\ InitCpVars

NextPersistRpc ==
    \/ \E options \in PersistOptions :
          /\ PersistBegin(2, SubjectFor(S_math, S_add), Num(5), options)
          /\ UNCHANGED <<runVars, brokerVars, callVars, regVars, loopPc, loopMsg, loopLog, loopPrev>>
    \/ \E t \in {1, 2} : EnsStart(t) /\ UNCHANGED <<runVars, brokerVars, callVars, regVars, loopVars, cpVars>>
    \/ \E t \in {1, 2} : BrokerInfo(t) /\ UNCHANGED <<runVars, brokerVars, callVars, regVars, loopVars, cpVars>>
    \/ \E t \in {1, 2} : BrokerAdd(t) /\ UNCHANGED <<runVars, brokerVars, callVars, regVars, loopVars, cpVars>>
    \/ \E t \in {1, 2} : BrokerFault(t) /\ UNCHANGED <<runVars, brokerVars, callVars, regVars, loopVars, cpVars>>
    \/ \E t \in {1, 2} : EnsAfterInfo(t) /\ UNCHANGED <<runVars, brokerVars, callVars, regVars, loopVars, cpVars>>
    \/ \E t \in {1, 2} : EnsAfterAdd(t) /\ UNCHANGED <<runVars, brokerVars, callVars, regVars, loopVars, cpVars>>
    \/ \E t \in {1, 2} : EnsAfterRequery(t) /\ UNCHANGED <<runVars, brokerVars, callVars, regVars, loopVars, cpVars>>
    \/ PersistAfterEnsure
          /\ UNCHANGED <<runVars, brokerVars, callVars, regVars, loopPc, loopMsg, loopLog, loopPrev>>
    \/ StoreRequest
          /\ UNCHANGED <<runVars, callVars, ensVars, regVars, loopPc, loopMsg, loopLog, loopPrev>>
    \/ PersistPublishRejected
          /\ UNCHANGED <<runVars, brokerVars, callVars, ensVars, regVars, loopPc, loopMsg, loopLog, loopPrev>>
    \/ ReplyArrives
          /\ UNCHANGED <<runVars, callVars, ensVars, regVars, loopPc, loopMsg, loopLog, loopPrev>>
    \/ ReplyLost /\ UNCHANGED <<runVars, callVars, ensVars, regVars, loopVars, cpVars>>
    \/ PersistTimerFires
          /\ UNCHANGED <<runVars, brokerVars, callVars, ensVars, regVars, loopPc, loopMsg, loopLog, loopPrev>>
    \/ PersistEnd /\ UNCHANGED <<runVars, brokerVars, callVars, ensVars, regVars, loopVars>>
    \/ RegBegin(<<S_add>>) /\ UNCHANGED <<runVars, brokerVars, callVars, cpVars>>
    \/ RegInit /\ UNCHANGED <<runVars, brokerVars, callVars, cpVars>>
    \/ RegAfterEnsure /\ UNCHANGED <<runVars, brokerVars, callVars, cpVars>>
    \/ RegSubscribed /\ UNCHANGED <<runVars, brokerVars, callVars, cpVars>>
    \/ RegSubscribeRejected /\ UNCHANGED <<runVars, brokerVars, callVars, cpVars>>
    \/ RegConsumerAdded /\ UNCHANGED <<runVars, brokerVars, callVars, cpVars>>
    \/ RegConsumerRejected /\ UNCHANGED <<runVars, brokerVars, callVars, cpVars>>
    \/ RegResubscribeRejected /\ UNCHANGED <<runVars, brokerVars, callVars, cpVars>>
    \/ BrokerDelivers
    \/ HandlerSettles
    \/ AckSettles
    \/ LoopEnd(S_add) /\ UNCHANGED <<runVars, brokerVars, callVars, ensVars, regVars, cpVars>>

SpecPersistRpc == InitPersistRpc /\ [][NextPersistRpc]_vars

\* the Broker does deliver to a consumer that waits, the handlers of the service
\* do settle, and so does m.ack()
SpecPersistRpcFair ==
    /\ SpecPersistRpc
    /\ WF_vars(BrokerDelivers)
    /\ WF_vars(HandlerSettles)
    /\ WF_vars(AckSettles)

(***************************************************************************)
(* One subscription and the messages delivered to it                       *)
(***************************************************************************)
MaxMsgs == 3

RunnerPayloads == {BadBytes, Json(Num(5))}

\* the state in which service('math', { add }) or on(subject, handler) has
\* returned: the subscription is in this._subs and its loop waits
Subscribed(m) ==
    /\ InitEnsVars /\ InitRegVars
    /\ subs = {m}
    /\ loopPc = [x \in Methods |-> IF x = m THEN "waiting" ELSE "none"]
    /\ loopMsg = [x \in Methods |-> NoMsg]
    /\ loopLog = [x \in Methods |-> <<>>]
    /\ loopPrev = [x \in Methods |-> "none"]

\* a connected instance with one subscription, made by service(), by
\* servicePersist() or by on()
InitRunner ==
    /\ InitConnected
    /\ cpPc = "idle" /\ cpIn = NoPersistCall /\ cpTimeout = 0 /\ cpReplySub = "none"
    /\ cpTimer = "none" /\ cpPubs = 0 /\ cpGot = None /\ cpOut = None /\ cpCalls = 0
    /\ jsLog = <<>>
    /\ delivered = [m \in Methods |-> 0]
    /\ inboxWire = <<>>
    /\ backlog = {}
    /\ runKind \in {"service", "persist", "on"}
    /\ IF runKind = "persist" THEN Registered(<<S_add>>) ELSE Subscribed(S_add)
    /\ runArrived = 0
    /\ runTaken = 0
    /\ InitLifeVars

\* the server delivers a message to the subscription, where it waits for the loop
Deliver ==
    /\ runArrived < MaxMsgs
    /\ runArrived' = runArrived + 1
    /\ UNCHANGED <<runKind, runTaken, lifeVars, connVars>>

\* the loop takes the message that has waited longest
TakeNext ==
    /\ runTaken < runArrived
    /\ runTaken' = runTaken + 1
    /\ UNCHANGED <<runKind, runArrived, lifeVars, connVars>>

RunnerRest == <<brokerVars, callVars, ensVars, regVars, cpVars>>

NextRunner ==
    \/ Deliver /\ UNCHANGED <<RunnerRest, loopVars>>
    \/ \E data \in RunnerPayloads, reply \in ReplySubjects :
          \E ok \in DecodeRespondOutcomes(data) :
             /\ runKind = "persist"
             /\ LoopTake(S_add, data, reply, ok)
             /\ TakeNext /\ UNCHANGED RunnerRest
    \/ \E result \in HandlerResults : \E ok \in RespondOutcomes(loopMsg[S_add]) :
          /\ runKind = "persist"
          /\ HandlerReturn(S_add, result, ok)
          /\ UNCHANGED <<RunnerRest, runVars>>
    \/ \E err \in HandlerThrows : \E ok \in RespondOutcomes(loopMsg[S_add]) :
          /\ runKind = "persist"
          /\ HandlerThrow(S_add, err, ok)
          /\ UNCHANGED <<RunnerRest, runVars>>
    \/ \E ok \in BOOLEAN :
          /\ runKind = "persist"
          /\ AckSettle(S_add, ok)
          /\ UNCHANGED <<RunnerRest, runVars>>
    \/ \E data \in RunnerPayloads, reply \in ReplySubjects, ok \in BOOLEAN :
          /\ runKind = "service"
          /\ SvcTake(S_add, data, reply, ok)
          /\ TakeNext /\ UNCHANGED RunnerRest
    \/ \E result \in HandlerResults, ok \in BOOLEAN, ok2 \in BOOLEAN :
          /\ runKind = "service"
          /\ SvcHandlerReturn(S_add, result, ok, ok2)
          /\ UNCHANGED <<RunnerRest, runVars>>
    \/ \E err \in HandlerThrows, ok \in BOOLEAN :
          /\ runKind = "service"
          /\ SvcHandlerThrow(S_add, err, ok)
          /\ UNCHANGED <<RunnerRest, runVars>>
    \/ \E data \in RunnerPayloads, reply \in ReplySubjects :
          /\ runKind = "on"
          /\ OnTake(S_add, data, reply)
          /\ TakeNext /\ UNCHANGED RunnerRest
    \/ \E result \in HandlerResults :
          /\ runKind = "on"
          /\ OnHandlerSettles(S_add, "handler_returned", result)
          /\ UNCHANGED <<RunnerRest, runVars>>
    \/ \E err \in HandlerThrows :
          /\ runKind = "on"
          /\ OnHandlerSettles(S_add, "handler_threw", err)
          /\ UNCHANGED <<RunnerRest, runVars>>
    \/ LoopEnd(S_add) /\ UNCHANGED <<RunnerRest, runVars>>

SpecRunner == InitRunner /\ [][NextRunner]_vars

\* a step of the loop itself: a message is taken or its processing moves on
RunnerLoopStep == NextRunner /\ (runTaken' # runTaken \/ loopLog' # loopLog)

\* for await hands over a delivered message as soon as the body of the loop has
\* finished, and a handler or an ack that was awaited settles
SpecRunnerFair == SpecRunner /\ WF_vars(RunnerLoopStep)

(***************************************************************************)
(* The subjects of the methods of services                                 *)
(***************************************************************************)
\* service names and method names (the keys of handlers), with and without a dot
ServiceNames == {<<"a">>, <<"a", "b">>, <<"a", ".", "b">>}
MethodNames == {<<"c">>, <<"b", "c">>, <<"b", ".", "c">>}
ServiceMethods == [name : ServiceNames, method : MethodNames]

\* two methods are about to be registered, of one service or of two
InitSubject ==
    /\ InitConnected /\ InitEnsVars /\ InitRegVars /\ InitLoopVars
    /\ cpPc = "idle" /\ cpIn = NoPersistCall /\ cpTimeout = 0 /\ cpReplySub = "none"
    /\ cpTimer = "none" /\ cpPubs = 0 /\ cpGot = None /\ cpOut = None /\ cpCalls = 0
    /\ jsLog = <<>>
    /\ delivered = [m \in Methods |-> 0]
    /\ inboxWire = <<>>
    /\ backlog = {}
    /\ runKind = "none" /\ runArrived = 0 /\ runTaken = 0
    /\ loopKind = [m \in Methods |-> "none"]
    /\ drainPc = "idle"
    /\ subCalls = <<>>
    /\ evalIn \in [1..2 -> ServiceMethods]
    /\ evalOut = <<>>
    /\ InitConnVars

\* const subject = `${name}.${method}`, for each of them
MakeSubjects ==
    /\ evalOut = <<>>
    /\ evalOut' = [i \in 1..2 |-> SubjectFor(evalIn[i].name, evalIn[i].method)]
    /\ UNCHANGED <<runKind, runArrived, runTaken, loopKind, drainPc, subCalls, evalIn, connVars>>

NextSubject ==
    MakeSubjects /\ UNCHANGED <<brokerVars, callVars, ensVars, regVars, loopVars, cpVars>>

SpecSubject == InitSubject /\ [][NextSubject]_vars

(***************************************************************************)
(* The subscriptions of service() and on() at the Broker                   *)
(***************************************************************************)
InitSubscribe ==
    InitConnected /\ InitEnsVars /\ InitRegVars /\ InitLoopVars /\ InitCpVars

SubscribeRest == <<brokerVars, callVars, ensVars, regVars, cpVars>>

NextSubscribe ==
    \/ \E batch \in Batches, serviceOpts \in SubscribeOpts :
          ServiceCall(S_math, batch, serviceOpts) /\ UNCHANGED SubscribeRest
    \/ \E subject \in Methods, opts \in SubscribeOpts :
          OnCall(subject, opts) /\ UNCHANGED SubscribeRest
    \/ \E m \in Methods : LoopEnd(m) /\ UNCHANGED <<SubscribeRest, runVars>>

SpecSubscribe == InitSubscribe /\ [][NextSubscribe]_vars

(***************************************************************************)
(* The subscriptions of one instance, from their making to shutdown        *)
(***************************************************************************)
\* a connected instance without subscriptions, whose earlier callPersist() calls
\* have ensured the streams of math.add and math.sub, in an application that goes
\* on to use one of service(), servicePersist(), on() and callPersist()
InitLifecycle ==
    /\ InitConnected /\ InitRegVars /\ InitLoopVars
    /\ cpPc = "idle" /\ cpIn = NoPersistCall /\ cpTimeout = 0 /\ cpReplySub = "none"
    /\ cpTimer = "none" /\ cpPubs = 0 /\ cpGot = None /\ cpOut = None /\ cpCalls = 0
    /\ jsLog = <<>>
    /\ delivered = [m \in Methods |-> 0]
    /\ inboxWire = <<>>
    /\ backlog = {}
    /\ runKind \in {"service", "persist", "on", "callPersist"}
    /\ runArrived = 0
    /\ runTaken = 0
    /\ InitLifeVars
    /\ jsStreams = {StreamOfMethod(m) : m \in Methods}
    /\ ensured = [p \in Procs |-> IF p = 1 THEN {StreamOfMethod(m).name : m \in Methods} ELSE {}]
    /\ ensPc = [t \in EnsTasks |-> "idle"]
    /\ ensIn = [t \in EnsTasks |-> NoEnsIn]
    /\ ensName = [t \in EnsTasks |-> <<>>]
    /\ ensResp = [t \in EnsTasks |-> NoResp]
    /\ ensErr = [t \in EnsTasks |-> BrokerError("", "")]
    /\ ensOut = [t \in EnsTasks |-> None]
    /\ ensFaults = 0

LifeKeep == <<runKind, runArrived, runTaken, drainPc, subCalls, evalIn, evalOut, connVars>>
LifeRest == <<brokerVars, callVars, ensVars, regVars, cpVars>>
LifeLoopRest == <<brokerVars, callVars, ensVars, regVars, cpVars, runVars>>
LifeShutRest ==
    <<brokerVars, ensVars, regVars, cpVars, loopVars, runKind, runArrived, runTaken,
      loopKind, subCalls, evalIn, evalOut, defaultTimeout, nConnects, callPc, callIn,
      callTimeout, callReqs, callGot, callOut, connVars>>
LifeCallRest == <<runVars, brokerVars, callVars, regVars, loopPc, loopMsg, loopLog, loopPrev>>

LifePayloads == {BadBytes, Json(Num(5))}
LifeThrows == {ThrownError(S_boom)}
LifeReplies == {Str(S_inbox)}

NextLifecycle ==
    \/ \E batch \in Batches :
          /\ runKind = "service"
          /\ ServiceCall(S_math, batch, [queue |-> Undef])
          /\ UNCHANGED LifeRest
    \/ \E subject \in Methods :
          /\ runKind = "on"
          /\ OnCall(subject, [queue |-> Undef])
          /\ UNCHANGED LifeRest
    \/ \E batch \in Batches :
          /\ runKind = "persist"
          /\ nc # 0 /\ drainPc = "idle"
          /\ RegBegin(batch)
          /\ UNCHANGED <<runVars, brokerVars, callVars, cpVars>>
    \/ RegInit /\ UNCHANGED <<runVars, brokerVars, callVars, cpVars>>
    \/ \E t \in EnsTasks :
          EnsStart(t) /\ UNCHANGED <<runVars, brokerVars, callVars, regVars, loopVars, cpVars>>
    \/ RegAfterEnsure /\ UNCHANGED <<runVars, brokerVars, callVars, cpVars>>
    \/ /\ RegSubscribed
       /\ loopKind' = [loopKind EXCEPT ![RegMethod] = "persist"]
       /\ UNCHANGED <<LifeKeep, brokerVars, callVars, cpVars>>
    \/ \E m \in Methods, data \in LifePayloads, reply \in LifeReplies :
          \E ok \in DecodeRespondOutcomes(data) :
             /\ loopKind[m] = "persist"
             /\ LoopTake(m, data, reply, ok)
             /\ UNCHANGED LifeLoopRest
    \/ \E m \in Methods, result \in HandlerResults :
          \E ok \in RespondOutcomes(loopMsg[m]) :
             /\ loopKind[m] = "persist"
             /\ HandlerReturn(m, result, ok)
             /\ UNCHANGED LifeLoopRest
    \/ \E m \in Methods, err \in LifeThrows :
          \E ok \in RespondOutcomes(loopMsg[m]) :
             /\ loopKind[m] = "persist"
             /\ HandlerThrow(m, err, ok)
             /\ UNCHANGED LifeLoopRest
    \/ \E m \in Methods, ok \in BOOLEAN :
          /\ loopKind[m] = "persist"
          /\ AckSettle(m, ok)
          /\ UNCHANGED LifeLoopRest
    \/ \E m \in Methods, data \in LifePayloads, reply \in LifeReplies, ok \in BOOLEAN :
          /\ loopKind[m] = "service"
          /\ SvcTake(m, data, reply, ok)
          /\ UNCHANGED LifeLoopRest
    \/ \E m \in Methods, result \in HandlerResults, ok \in BOOLEAN, ok2 \in BOOLEAN :
          /\ loopKind[m] = "service"
          /\ SvcHandlerReturn(m, result, ok, ok2)
          /\ UNCHANGED LifeLoopRest
    \/ \E m \in Methods, err \in LifeThrows, ok \in BOOLEAN :
          /\ loopKind[m] = "service"
          /\ SvcHandlerThrow(m, err, ok)
          /\ UNCHANGED LifeLoopRest
    \/ \E m \in Methods, data \in LifePayloads, reply \in LifeReplies :
          /\ loopKind[m] = "on"
          /\ OnTake(m, data, reply)
          /\ UNCHANGED LifeLoopRest
    \/ \E m \in Methods, result \in HandlerResults :
          /\ loopKind[m] = "on"
          /\ OnHandlerSettles(m, "handler_returned", result)
          /\ UNCHANGED LifeLoopRest
    \/ \E m \in Methods, err \in LifeThrows :
          /\ loopKind[m] = "on"
          /\ OnHandlerSettles(m, "handler_threw", err)
          /\ UNCHANGED LifeLoopRest
    \/ \E m \in Methods : LoopEnd(m) /\ UNCHANGED LifeLoopRest
    \/ /\ runKind = "callPersist"
       /\ PersistBegin(1, SubjectFor(S_math, S_add), Num(5), [timeout |-> [t |-> "undef", v |-> 0]])
       /\ UNCHANGED LifeCallRest
    \/ PersistAfterEnsure /\ UNCHANGED LifeCallRest
    \/ PersistPublished /\ UNCHANGED <<LifeCallRest, ensVars>>
    \/ PersistPublishRejected /\ UNCHANGED <<LifeCallRest, ensVars>>
    \/ PersistReply(Json(Obj(TRUE, FALSE, NoStr, Num(5)))) /\ UNCHANGED <<LifeCallRest, ensVars>>
    \/ PersistTimerFires /\ UNCHANGED <<LifeCallRest, ensVars>>
    \/ PersistReplySubEnds /\ UNCHANGED <<LifeCallRest, ensVars>>
    \/ PersistEnd /\ UNCHANGED <<runVars, brokerVars, callVars, ensVars, regVars, loopVars>>
    \/ DrainBegin /\ UNCHANGED LifeShutRest
    \/ DrainResolves /\ UNCHANGED LifeShutRest
    \/ DrainRejects /\ UNCHANGED LifeShutRest
    \/ \E ok \in BOOLEAN : DrainCloseSettles(ok) /\ UNCHANGED LifeShutRest
    \/ CloseBegin /\ UNCHANGED LifeShutRest
    \/ \E ok \in BOOLEAN : CloseSettles(ok) /\ UNCHANGED LifeShutRest

SpecLifecycle == InitLifecycle /\ [][NextLifecycle]_vars

(***************************************************************************)
(* Two methods of one service                                              *)
(***************************************************************************)
\* the state in which service('math', { add, sub }) has returned
SubscribedAll ==
    /\ InitEnsVars /\ InitRegVars
    /\ subs = Methods
    /\ loopPc = [m \in Methods |-> "waiting"]
    /\ loopMsg = [m \in Methods |-> NoMsg]
    /\ loopLog = [m \in Methods |-> <<>>]
    /\ loopPrev = [m \in Methods |-> "none"]

\* a connected instance that serves math.add and math.sub, by service() or by
\* servicePersist(); the messages of math.add are counted
InitPair ==
    /\ InitConnected
    /\ cpPc = "idle" /\ cpIn = NoPersistCall /\ cpTimeout = 0 /\ cpReplySub = "none"
    /\ cpTimer = "none" /\ cpPubs = 0 /\ cpGot = None /\ cpOut = None /\ cpCalls = 0
    /\ jsLog = <<>>
    /\ delivered = [m \in Methods |-> 0]
    /\ inboxWire = <<>>
    /\ backlog = {}
    /\ runKind \in {"service", "persist"}
    /\ IF runKind = "persist" THEN Registered(<<S_add, S_sub>>) ELSE SubscribedAll
    /\ runArrived = 0
    /\ runTaken = 0
    /\ loopKind = [m \in Methods |-> runKind]
    /\ drainPc = "idle"
    /\ subCalls = <<>>
    /\ evalIn = <<>>
    /\ evalOut = <<>>
    /\ InitConnVars

\* the loop of math.add takes the message that has waited longest; what is
\* delivered to math.sub is not counted
TakeCounted(m) == IF m = S_add THEN TakeNext ELSE UNCHANGED runVars

PairPayloads(m) == IF m = S_add THEN RunnerPayloads ELSE {Json(Num(5))}

NextPair ==
    \/ Deliver /\ UNCHANGED <<RunnerRest, loopVars>>
    \/ \E m \in Methods, reply \in LifeReplies : \E data \in PairPayloads(m) :
          \E ok \in DecodeRespondOutcomes(data) :
             /\ runKind = "persist"
             /\ LoopTake(m, data, reply, ok)
             /\ TakeCounted(m) /\ UNCHANGED RunnerRest
    \/ \E m \in Methods, result \in HandlerResults : \E ok \in RespondOutcomes(loopMsg[m]) :
          /\ runKind = "persist"
          /\ HandlerReturn(m, result, ok)
          /\ UNCHANGED <<RunnerRest, runVars>>
    \/ \E m \in Methods, err \in LifeThrows : \E ok \in RespondOutcomes(loopMsg[m]) :
          /\ runKind = "persist"
          /\ HandlerThrow(m, err, ok)
          /\ UNCHANGED <<RunnerRest, runVars>>
    \/ \E m \in Methods, ok \in BOOLEAN :
          /\ runKind = "persist"
          /\ AckSettle(m, ok)
          /\ UNCHANGED <<RunnerRest, runVars>>
    \/ \E m \in Methods, reply \in LifeReplies, ok \in BOOLEAN : \E data \in PairPayloads(m) :
          /\ runKind = "service"
          /\ SvcTake(m, data, reply, ok)
          /\ TakeCounted(m) /\ UNCHANGED RunnerRest
    \/ \E m \in Methods, result \in HandlerResults, ok \in BOOLEAN, ok2 \in BOOLEAN :
          /\ runKind = "service"
          /\ SvcHandlerReturn(m, result, ok, ok2)
          /\ UNCHANGED <<RunnerRest, runVars>>
    \/ \E m \in Methods, err \in LifeThrows, ok \in BOOLEAN :
          /\ runKind = "service"
          /\ SvcHandlerThrow(m, err, ok)
          /\ UNCHANGED <<RunnerRest, runVars>>
    \/ \E m \in Methods : LoopEnd(m) /\ UNCHANGED <<RunnerRest, runVars>>

SpecPair == InitPair /\ [][NextPair]_vars

\* a step of the loop of math.add
PairWatchedStep ==
    NextPair /\ (runTaken' # runTaken \/ loopLog'[S_add] # loopLog[S_add])

\* the loop of math.add is handed a delivered message as soon as its body has
\* finished, and what it awaits settles; nothing is assumed of math.sub, whose
\* handler may never return
SpecPairFair == SpecPair /\ WF_vars(PairWatchedStep)

(***************************************************************************)
(* The cache of ensured streams, with callPersist(), servicePersist() and  *)
(* the shutdown of the instance                                            *)
(***************************************************************************)
InitCache == InitPersistRpc

\* the remote call over JetStream, and drain() and close() at any time of it
NextCache ==
    \/ NextPersistRpc
    \/ DrainBegin /\ UNCHANGED LifeShutRest
    \/ DrainResolves /\ UNCHANGED LifeShutRest
    \/ DrainRejects /\ UNCHANGED LifeShutRest
    \/ \E ok \in BOOLEAN : DrainCloseSettles(ok) /\ UNCHANGED LifeShutRest
    \/ CloseBegin /\ UNCHANGED LifeShutRest
    \/ \E ok \in BOOLEAN : CloseSettles(ok) /\ UNCHANGED LifeShutRest

SpecCache == InitCache /\ [][NextCache]_vars

(***************************************************************************)
(* The connection of an instance: operations that connect, and shutdowns   *)
(***************************************************************************)
ConnRest ==
    <<brokerVars, ensVars, regVars, cpVars, loopVars, runKind, runArrived, runTaken,
      loopKind, subCalls, evalIn, evalOut, defaultTimeout, callPc, callIn, callTimeout, callReqs, callGot, callOut>>
ConnKeep == <<connPc, connOp, subsOn, js, jsm, connsSince>>

\* a new instance: nc, js and jsm are null
InitConn == InitCallVars /\ InitEnsVars /\ InitRegVars /\ InitLoopVars /\ InitCpVars

NextConn ==
    \/ \E t \in ConnTasks, op \in ConnOps : ConnectCall(t, op) /\ UNCHANGED ConnRest
    \/ \E t \in ConnTasks : ConnectResolves(t) /\ UNCHANGED ConnRest
    \/ \E t \in ConnTasks : ConnectRejects(t) /\ UNCHANGED ConnRest
    \/ \E t \in ConnTasks : Subscribe(t) /\ UNCHANGED ConnRest
    \/ \E t \in ConnTasks : JetStreamInit(t) /\ UNCHANGED ConnRest
    \/ \E t \in ConnTasks : JetStreamManagerInit(t) /\ UNCHANGED ConnRest
    \/ \E t \in ConnTasks : OpReturns(t) /\ UNCHANGED ConnRest
    \/ DrainBegin /\ ShutdownCalled /\ shutOn' = nc
          /\ UNCHANGED <<ConnKeep, nConnects, ConnRest>>
    \/ DrainResolves /\ ConnectionEnds
          /\ UNCHANGED <<connPc, connOp, js, jsm, shutCalls, nConnects, ConnRest>>
    \/ DrainRejects /\ shutOn' = nc
          /\ UNCHANGED <<ConnKeep, shutCalls, nConnects, ConnRest>>
    \/ \E ok \in BOOLEAN :
          DrainCloseSettles(ok) /\ ConnectionEnds
             /\ UNCHANGED <<connPc, connOp, js, jsm, shutCalls, nConnects, ConnRest>>
    \/ CloseBegin /\ ShutdownCalled /\ shutOn' = nc
          /\ UNCHANGED <<ConnKeep, nConnects, ConnRest>>
    \/ \E ok \in BOOLEAN :
          CloseSettles(ok) /\ ConnectionEnds
             /\ UNCHANGED <<connPc, connOp, js, jsm, shutCalls, nConnects, ConnRest>>
    \/ ShutdownNoop /\ ShutdownCalled
          /\ UNCHANGED <<ConnKeep, shutOn, nConnects, ConnRest>>
    \/ ShutdownReturns
          /\ UNCHANGED <<ConnKeep, shutCalls, shutOn, nConnects, ConnRest>>

SpecConn == InitConn /\ [][NextConn]_vars

(***************************************************************************)
(* Claims about call()                                                     *)
(***************************************************************************)
CallSettled == callPc = "done" /\ callGot.kind # "none"
GotErrEnvelope ==
    /\ CallSettled
    /\ callGot.kind = "reply"
    /\ ~DecodeFails(callGot.data)
    /\ HasError(Decode(callGot.data))
FailedWith(code) == callOut.kind = "throw" /\ CodeIs(callOut.err.code, code)

\* C1: every reply to call() that carries an Err envelope makes call() fail with
\* code RPC_REMOTE_ERROR and the envelope's message, whatever the message's text.
C1_ErrEnvelopeIsRemoteError ==
    GotErrEnvelope =>
        /\ FailedWith("RPC_REMOTE_ERROR")
        /\ LET m == Decode(callGot.data).message
           IN  m.has => callOut.err.message = m

\* the Broker's no-responders signal: the status in the error's code
NoRespondersSignal(err) == CodeString(err.code) \in {"503", "NO_RESPONDERS"}
GotNoResponders ==
    /\ CallSettled
    /\ callGot.kind = "reject"
    /\ NoRespondersSignal(callGot.err)

GotTimeout ==
    /\ CallSettled
    /\ callGot.kind = "reject"
    /\ \/ CodeIs(callGot.err.code, "REQ_TIMEOUT")
       \/ WordMatch(OrElse(callGot.err.message, <<>>), S_timeout, TRUE)

\* C3: when the transport reports a request timeout, call() fails with RPC_TIMEOUT
\* carrying the timeout in force (options.timeout if a number, else the instance
\* default) and has issued exactly one request.
C3_TimeoutFailsAtOnce ==
    GotTimeout =>
        /\ FailedWith("RPC_TIMEOUT")
        /\ callOut.err.timeout =
              [has |-> TRUE,
               ms |-> IF callIn.options.timeout.t = "num"
                      THEN callIn.options.timeout.v ELSE defaultTimeout]
        /\ callReqs = 1

C3_Witness ==
    /\ GotTimeout
    /\ CodeIs(callGot.err.code, "REQ_TIMEOUT")
    /\ callIn.options.timeout.t = "num"
    /\ callOut.err.timeout.ms = callIn.options.timeout.v
    /\ callOut.err.timeout.ms # defaultTimeout
    /\ callReqs = 1

\* C4: whenever the request fails with an error whose code is NO_RESPONDERS or 503,
\* or whose message contains the words "no responders" or "503", call() fails with
\* RPC_NO_RESPONDERS.
C4_NoRespondersNormalised ==
    (/\ CallSettled
     /\ callGot.kind = "reject"
     /\ \/ NoRespondersSignal(callGot.err)
        \/ WordMatch(OrElse(callGot.err.message, <<>>), S_no_responders, TRUE)
        \/ WordMatch(OrElse(callGot.err.message, <<>>), S_503, FALSE))
    => FailedWith("RPC_NO_RESPONDERS")

\* the reply to call() was decoded to resp
GotDecoded(resp) ==
    /\ CallSettled
    /\ callGot.kind = "reply"
    /\ ~DecodeFails(callGot.data)
    /\ Decode(callGot.data) = resp

\* C15: when the reply to call() is an Ok envelope (__ok set, __error not set),
\* call() returns the envelope's result, for every result of the replies drawn.
C15_OkEnvelopeReturnsResult ==
    \A result \in {Num(5), Null} :
       GotDecoded(Obj(TRUE, FALSE, NoStr, result)) => callOut = Return(result)

C15_Witness == GotDecoded(Obj(TRUE, FALSE, NoStr, Num(5))) /\ callOut = Return(Num(5))

\* an error of the request that is a timeout or a no-responders signal, by its
\* code or by the words of its message
KnownFailure(err) ==
    \/ CodeString(err.code) \in {"REQ_TIMEOUT", "NO_RESPONDERS", "503"}
    \/ \E w \in {S_timeout, S_no_responders} : WordMatch(OrElse(err.message, <<>>), w, TRUE)
    \/ WordMatch(OrElse(err.message, <<>>), S_503, FALSE)

\* C16: when nc.request rejects with an error that is neither a timeout nor a
\* no-responders signal, call() throws that very error: same code, same message,
\* nothing added.
C16_OtherFailureUnchanged ==
    (CallSettled /\ callGot.kind = "reject" /\ ~KnownFailure(callGot.err))
        => callOut = Throw(callGot.err)

C16_Witness ==
    /\ CallSettled
    /\ callGot.kind = "reject"
    /\ callGot.err = JsError("transport", StrCode("CONNECTION_CLOSED"), Str(S_5030))
    /\ callOut = Throw(callGot.err)

(***************************************************************************)
(* Claims about ensureStreamForSubject()                                   *)
(***************************************************************************)
EnsSubjects == {in.subject : in \in EnsInputs}
StreamsFor(subject) == {st \in jsStreams : subject \in st.subjects}

\* every task has called for subject, with the derived name, and has settled, and
\* the Broker holds no stream of another subject
AllEnsuredSubject(subject) ==
    /\ \A t \in EnsTasks :
          /\ ensPc[t] = "done"
          /\ ensIn[t].subject = subject
          /\ ~ensIn[t].streamName.has
    /\ \A st \in jsStreams : st.subjects \subseteq {subject}

\* C8: when all the tasks, of one process or of several, have called ensureStream
\* for the same subject, in any interleaving of their info and create steps, on a
\* Broker that holds streams of no other subject and has answered every request,
\* exactly one stream exists for the subject, every call has returned the same
\* stream name and none has failed.
C8_RacingEnsureOneStream ==
    \A subject \in EnsSubjects :
        (AllEnsuredSubject(subject) /\ ensFaults = 0) =>
            /\ Cardinality(StreamsFor(subject)) = 1
            /\ \A t \in EnsTasks :
                  /\ ensOut[t].kind = "return"
                  /\ ensOut[t].name = ensOut[1].name
                  /\ \E st \in StreamsFor(subject) : st.name = ensOut[t].name

\* two processes raced: one created the stream, the other's create was refused
C8_Witness ==
    /\ AllEnsuredSubject(S_a_dot_b)
    /\ ensFaults = 0
    /\ \E t, u \in EnsTasks :
          /\ ensIn[t].proc # ensIn[u].proc
          /\ ensErr[t].why = "name in use"
          /\ ensErr[u].why = ""
          /\ ensOut[t] = ensOut[u]
          /\ ensOut[t].kind = "return"

\* C9: when streams.add has failed and the second streams.info fails too, the call
\* throws the error of streams.add, not that of streams.info, and leaves the cache
\* as it is; when the second streams.info succeeds, the name is cached and returned.
C9_RequeryThenOriginalError ==
    [][\A t \in EnsTasks :
          (ensPc[t] = "info2_r" /\ ensPc'[t] = "done") =>
              IF ensResp[t].ok
              THEN /\ ensOut'[t] = [kind |-> "return", name |-> ensName[t]]
                   /\ ensName[t] \in ensured'[ensIn[t].proc]
              ELSE /\ ensOut'[t] = [kind |-> "throw", err |-> ensErr[t]]
                   /\ ensErr[t].op = "add"
                   /\ ensResp[t].err.op = "info"
                   /\ ensured' = ensured]_vars

C9_Witness ==
    \E t \in EnsTasks :
        /\ ensPc[t] = "done"
        /\ ensOut[t].kind = "throw"
        /\ ensOut[t].err = BrokerError("add", "subjects overlap")
        /\ ensName[t] \notin ensured[ensIn[t].proc]


(***************************************************************************)
(* Claims about the message loops of servicePersist()                      *)
(***************************************************************************)
LogIdx(log, e) == CHOOSE i \in 1..Len(log) : log[i].ev = e
LogCount(log, e) == Cardinality({i \in 1..Len(log) : log[i].ev = e})
\* the text of what a handler threw
HandlerErrorText(err) == IF err.t = "Error" THEN err.message.s ELSE err.s

\* C5: for a durable message whose handler completed successfully, the message is
\* acknowledged once, after the handler has completed; where the message has a
\* reply address, one reply is made between the handler's completion and the
\* acknowledgment, it is an Ok envelope carrying the handler's result, and it is
\* sent unless the sending itself throws; the message is never nak'ed.
C5_SuccessRepliesThenAcks ==
    \A m \in Methods :
       LogHas(loopLog[m], "handler_returned") =>
          LET log == loopLog[m]
              r == LogIdx(log, "handler_returned")
          IN /\ LogCount(log, "ack") = 1
             /\ LogCount(log, "nak") = 0
             /\ LogIdx(log, "handler_called") < r
             /\ r < LogIdx(log, "ack")
             /\ LogCount(log, "respond") = (IF loopMsg[m].reply.has THEN 1 ELSE 0)
             /\ loopMsg[m].reply.has =>
                   LET p == LogIdx(log, "respond")
                   IN /\ r < p
                      /\ p < LogIdx(log, "ack")
                      /\ log[p].env.__ok
                      /\ ~log[p].env.__error
                      /\ log[p].env.result = log[r].env
                      /\ log[p].threw \/ log[p].sent

C5_Witness ==
    \E m \in Methods :
       /\ loopPc[m] = "waiting"
       /\ loopMsg[m].reply.has
       /\ LogHas(loopLog[m], "handler_returned")
       /\ LogHas(loopLog[m], "settled")
       /\ loopLog[m][LogIdx(loopLog[m], "respond")].sent

\* C6: for a durable message whose handler threw, the message is acknowledged once
\* and never nak'ed; where the message has a reply address, one reply is made
\* before the acknowledgment, it is an Err envelope whose message is the text of
\* what the handler threw, and it is sent unless the sending itself throws.
C6_FailureRepliesErrAndAcks ==
    \A m \in Methods :
       LogHas(loopLog[m], "handler_threw") =>
          LET log == loopLog[m]
              r == LogIdx(log, "handler_threw")
          IN /\ LogCount(log, "ack") = 1
             /\ LogCount(log, "nak") = 0
             /\ r < LogIdx(log, "ack")
             /\ LogCount(log, "respond") = (IF loopMsg[m].reply.has THEN 1 ELSE 0)
             /\ loopMsg[m].reply.has =>
                   LET p == LogIdx(log, "respond")
                   IN /\ r < p
                      /\ p < LogIdx(log, "ack")
                      /\ log[p].env.__error
                      /\ ~log[p].env.__ok
                      /\ log[p].env.message = Str(HandlerErrorText(log[r].env))
                      /\ log[p].threw \/ log[p].sent

C6_Witness ==
    \E m \in Methods :
       /\ loopPc[m] = "waiting"
       /\ loopMsg[m].reply.has
       /\ LogHas(loopLog[m], "handler_threw")
       /\ loopLog[m][LogIdx(loopLog[m], "handler_threw")].env = ThrownString(S_timed_out)
       /\ LogHas(loopLog[m], "settled")
       /\ loopLog[m][LogIdx(loopLog[m], "respond")].sent

\* C7: for a durable message whose payload cannot be decoded, the handler is not
\* called, one reply is made, the Err envelope 'invalid JSON payload', sent where
\* the message has a reply address unless the sending itself throws, the message
\* is acknowledged once after it, and when the acknowledgment has settled the loop
\* waits for its next message.
C7_UndecodableAnsweredAndAcked ==
    /\ [](\A m \in Methods :
             LogHas(loopLog[m], "decode_failed") =>
                LET log == loopLog[m]
                    p == LogIdx(log, "respond")
                IN /\ DecodeFails(loopMsg[m].data)
                   /\ LogCount(log, "handler_called") = 0
                   /\ LogCount(log, "respond") = 1
                   /\ LogCount(log, "ack") = 1
                   /\ LogCount(log, "nak") = 0
                   /\ p < LogIdx(log, "ack")
                   /\ log[p].env.__error
                   /\ log[p].env.message = Str(S_invalid_JSON_payload)
                   /\ loopMsg[m].reply.has => (log[p].threw \/ log[p].sent))
    /\ [][\A m \in Methods :
             (LogHas(loopLog[m], "decode_failed") /\ loopPc[m] = "ack"
                 /\ loopPc'[m] # loopPc[m])
             => loopPc'[m] = "waiting"]_vars

\* a message is handled by the loop whose message before it could not be decoded
C7_Witness ==
    \E m \in Methods :
       /\ loopPrev[m] = "decode_failed"
       /\ loopPc[m] = "handler"
       /\ LogHas(loopLog[m], "handler_called")

(***************************************************************************)
(* Claims about the registration of servicePersist()                       *)
(***************************************************************************)
\* C10: when the registration of a batch has failed at one method, the failure is
\* thrown to the caller and every other method of the batch has its subscription
\* and its message loop.
C10_BatchFailureLeavesOthersRegistered ==
    regPc = "failed" =>
       /\ regOut.kind = "throw"
       /\ \A m \in SeqRange(regBatch) \ {regOut.method} : loopPc[m] # "none"

(***************************************************************************)
(* Claims about callPersist()                                              *)
(***************************************************************************)
PersistSettled == cpPc = "done" /\ cpGot.kind # "none"
\* the reply to callPersist() was decoded to resp
PersistGotDecoded(resp) ==
    /\ PersistSettled
    /\ cpGot.kind = "reply"
    /\ ~DecodeFails(cpGot.data)
    /\ Decode(cpGot.data) = resp
\* the decoded replies that are neither an Ok nor an Err envelope
PlainValues == {Null, Num(0), Num(5), Text(S_boom), Obj(FALSE, FALSE, Str(S_boom), Num(5))}

\* C17: a reply that decodes to a value that is neither an Ok nor an Err envelope
\* makes call() and callPersist() return that value; a reply with no payload makes
\* them return undefined, not null.
C17_PlainReplyReturnedAsIs ==
    /\ \A v \in PlainValues :
          /\ GotDecoded(v) => callOut = Return(v)
          /\ PersistGotDecoded(v) => cpOut = Return(v)
    /\ (CallSettled /\ callGot.kind = "reply" /\ callGot.data = NoBytes)
          => (callOut = Return(Undef) /\ callOut # Return(Null))
    /\ (PersistSettled /\ cpGot.kind = "reply" /\ cpGot.data = NoBytes)
          => (cpOut = Return(Undef) /\ cpOut # Return(Null))

\* callPersist() has returned undefined for a reply with no payload
C17_Witness ==
    /\ PersistSettled
    /\ cpGot.kind = "reply"
    /\ cpGot.data = NoBytes
    /\ cpOut = Return(Undef)
    /\ cpCalls = MaxPersistCalls

\* C18: a callPersist() that has had a reply called js.publish once, the request
\* it published is the last of the log and carries the reply inbox; an Ok envelope
\* makes it return the envelope's result and an Err envelope makes it fail with
\* RPC_REMOTE_ERROR and the envelope's message.
C18_PublishOnceThenEnvelope ==
    /\ cpPc \in {"publish", "wait"} => cpPubs = 1
    /\ Len(jsLog) <= cpCalls
    /\ (PersistSettled /\ cpGot.kind = "reply") =>
          /\ cpPubs = 1
          /\ jsLog # <<>>
          /\ jsLog[Len(jsLog)] = [subject |-> cpIn.subject,
                                  data |-> Json(IF cpIn.data = Undef THEN Null ELSE cpIn.data),
                                  reply |-> Str(S_inbox \o <<ToString(cpCalls)>>)]
    /\ \A result \in {Num(5), Null} :
          PersistGotDecoded(Obj(TRUE, FALSE, NoStr, result)) => cpOut = Return(result)
    /\ \A m \in RemoteMessages :
          PersistGotDecoded(Obj(FALSE, TRUE, m, Undef)) =>
             /\ cpOut.kind = "throw"
             /\ CodeIs(cpOut.err.code, "RPC_REMOTE_ERROR")
             /\ m.has => cpOut.err.message = m

C18_Witness ==
    /\ PersistGotDecoded(Obj(FALSE, TRUE, Str(S_503), Undef))
    /\ CodeIs(cpOut.err.code, "RPC_REMOTE_ERROR")
    /\ cpOut.err.message = Str(S_503)
    /\ cpCalls = MaxPersistCalls
    /\ Len(jsLog) = MaxPersistCalls

\* C19: a callPersist() whose wait was ended by the timer fails with RPC_TIMEOUT
\* carrying the timeout in force (options.timeout if a number, else the instance
\* default); the timer is set while the call waits for the reply and at no other
\* time, and a call that was ended by a reply has its timer cleared, never fired.
C19_TimeoutOrTimerCleared ==
    /\ (PersistSettled /\ cpGot.kind = "timeout") =>
          /\ cpTimer = "fired"
          /\ cpOut.kind = "throw"
          /\ CodeIs(cpOut.err.code, "RPC_TIMEOUT")
          /\ cpOut.err.timeout =
                [has |-> TRUE,
                 ms |-> IF cpIn.options.timeout.t = "num"
                        THEN cpIn.options.timeout.v ELSE defaultTimeout]
    /\ cpTimer = "fired" => (PersistSettled /\ cpGot.kind = "timeout")
    /\ cpTimer = "armed" <=> cpPc = "wait"
    /\ (PersistSettled /\ cpGot.kind = "reply") => cpTimer = "cleared"

C19_Witness ==
    /\ PersistSettled
    /\ cpGot.kind = "timeout"
    /\ cpIn.options.timeout.t = "num"
    /\ cpOut.err.timeout.ms = cpIn.options.timeout.v
    /\ cpOut.err.timeout.ms # defaultTimeout

\* C20: a callPersist() whose reply subscription ended with no message, before the
\* timer fired, fails with RPC_NO_REPLY.
C20_EndedSubscriptionIsNoReply ==
    (PersistSettled /\ cpGot.kind = "ended") =>
       /\ cpOut.kind = "throw"
       /\ CodeIs(cpOut.err.code, "RPC_NO_REPLY")
       /\ cpTimer = "cleared"

C20_Witness ==
    /\ PersistSettled
    /\ cpGot.kind = "ended"
    /\ CodeIs(cpOut.err.code, "RPC_NO_REPLY")

(***************************************************************************)
(* Claims about callPersist() with servicePersist()                        *)
(***************************************************************************)
IsPrefix(p, q) == Len(p) <= Len(q) /\ SubSeq(q, 1, Len(p)) = p

\* C11: a request that callPersist published stays in the log; one that was stored
\* while its subject had no consumer is given to the handler after servicePersist
\* has registered for the subject, unless the loop of the subscription has ended;
\* the handler is called with requests of the log only; and a reply that reaches
\* the inbox of a call that still waits is what the call settles with, the
\* handler's result or its error.
C11_BacklogServedAfterRegistration ==
    /\ [][IsPrefix(jsLog, jsLog')]_vars
    /\ [](loopPc[S_add] = "handler" =>
             /\ delivered[S_add] \in 1..Len(jsLog)
             /\ loopMsg[S_add] = [data |-> jsLog[delivered[S_add]].data,
                                  reply |-> jsLog[delivered[S_add]].reply])
    /\ \A i \in 1..MaxPersistCalls :
          (i \in backlog /\ delivered[S_add] < i /\ loopPc[S_add] \notin {"none", "closed"})
             ~> (\/ loopPc[S_add] = "handler" /\ delivered[S_add] = i
                 \/ loopPc[S_add] = "closed")
    /\ [][(/\ inboxWire # <<>>
           /\ inboxWire' = Tail(inboxWire)
           /\ cpPc = "wait"
           /\ Head(inboxWire).to = S_inbox \o <<ToString(cpCalls)>>)
          => (/\ cpPc' = "done"
              /\ cpGot' = [kind |-> "reply", data |-> Head(inboxWire).data]
              /\ LET env == Head(inboxWire).data.v IN
                 IF env.__ok
                 THEN cpOut' = Return(env.result)
                 ELSE /\ cpOut'.kind = "throw"
                      /\ CodeIs(cpOut'.err.code, "RPC_REMOTE_ERROR")
                      /\ cpOut'.err.message = env.message)]_vars

\* the first call was published before the service had registered, and has
\* returned the handler's result
C11_Witness ==
    /\ 1 \in backlog
    /\ cpCalls = 1
    /\ cpPc = "done"
    /\ cpGot.kind = "reply"
    /\ cpOut = Return(Num(5))
    /\ delivered[S_add] = 1

(***************************************************************************)
(* Claims about the message loop of one subscription                       *)
(***************************************************************************)
RunLog == loopLog[S_add]
ThrewNow == ~LogHas(RunLog, "handler_threw") /\ LogHas(RunLog', "handler_threw")
\* m.respond was called with the Err envelope of what the handler threw
ErrReplyMade(log) ==
    \E i \in 1..Len(log) : \E j \in 1..Len(log) :
       /\ log[i].ev = "handler_threw"
       /\ j > i
       /\ log[j].ev = "respond"
       /\ log[j].env = ErrEnvelope(log[i].env)

\* C12: a handler that throws never stops the loop of service() or of
\* servicePersist(): in the step in which the handler of message n throws, m.respond
\* is called with the Err envelope of what was thrown (by servicePersist() where the
\* message has a reply subject) and the subscription stays open and registered; and
\* if message n+1 has been delivered the loop goes on to take it, unless the
\* subscription itself ends
C12_HandlerFailureKeepsRunner ==
    /\ [][(ThrewNow /\ runKind \in {"service", "persist"}) =>
            /\ loopPc'[S_add] \in {"waiting", "ack"}
            /\ S_add \in subs'
            /\ (runKind = "service" \/ loopMsg[S_add].reply.has) => ErrReplyMade(RunLog')]_vars
    /\ \A n \in 1..(MaxMsgs - 1) :
          (/\ runKind \in {"service", "persist"}
           /\ runTaken = n /\ runArrived > n
           /\ LogHas(RunLog, "handler_threw"))
          ~> (runTaken > n \/ loopPc[S_add] = "closed")

\* the handler threw for the message before, and the handler of the last of the
\* delivered messages has been called and has returned
C12_Witness ==
    /\ runKind = "service"
    /\ runTaken = MaxMsgs
    /\ loopPrev[S_add] = "threw"
    /\ LogHas(RunLog, "handler_returned")

RespondThrewNow ==
    \E i \in 1..Len(RunLog') :
       /\ RunLog'[i].ev = "respond" /\ RunLog'[i].threw
       /\ (RunLog' # RunLog)

\* C13: a reply that cannot be sent is never raised out of the loop: a step of
\* service() or of servicePersist() in which m.respond throws, after a decode
\* failure, a handler success or a handler failure, leaves the subscription open
\* and registered, and servicePersist() still acknowledges the message
C13_ReplyFailureStaysInLoop ==
    [][(RespondThrewNow /\ runKind \in {"service", "persist"}) =>
          /\ loopPc'[S_add] # "closed"
          /\ S_add \in subs'
          /\ (runKind = "persist" => LogHas(RunLog', "ack"))]_vars

\* the processing of the message of this log has finished: service() has answered,
\* servicePersist() has awaited the ack, on() has awaited the handler
Finished(kind, log) ==
    \/ log = <<>>
    \/ /\ kind = "service"
       /\ log[Len(log)].ev = "respond"
    \/ /\ kind = "persist"
       /\ log[Len(log)].ev \in {"settled", "settle_failed"}
       /\ LogHas(log, "ack")
    \/ /\ kind = "on"
       /\ log[Len(log)].ev \in {"decode_failed", "handler_returned", "handler_threw"}

\* C14: one subscription of service(), servicePersist() or on() processes its
\* messages in the order of their delivery and one at a time: the loop takes message
\* n+1, and calls its handler, only after message n has been delivered and taken
\* and its handler, its reply and (servicePersist) its ack have finished
C14_OneAtATimeInOrder ==
    /\ [](runTaken <= runArrived)
    /\ [][runTaken' # runTaken =>
            /\ runTaken' = runTaken + 1
            /\ loopPc[S_add] = "waiting"
            /\ Finished(runKind, RunLog)]_vars
    /\ [][(LogHas(RunLog', "handler_called") /\ RunLog' # RunLog
             /\ ~LogHas(RunLog, "handler_called")) =>
            /\ runTaken' = runTaken + 1
            /\ Finished(runKind, RunLog)]_vars
    /\ [](loopPc[S_add] \in {"handler", "ack"} => ~Finished(runKind, RunLog))

\* the third message has been delivered and waits while the ack of the second is
\* awaited
C14_Witness ==
    /\ runKind = "persist"
    /\ runTaken = 2
    /\ runArrived = MaxMsgs
    /\ loopPc[S_add] = "ack"
    /\ loopPrev[S_add] = "returned"

(***************************************************************************)
(* Claims about the requests of ensureStreamForSubject()                   *)
(***************************************************************************)
\* the task has a request at the Broker: streams.info or streams.add
EnsAsking(pc) == pc \in {"info1", "add", "info2"}

\* C30: ensureStreamForSubject asks the Broker nothing when the stream name is in
\* the cache of its process, and returns the name; it calls streams.add only after
\* its first streams.info has failed, never after one that found the stream, which
\* ends the call with the name cached
C30_NoQueryWhenCachedNoAddWhenFound ==
    [][\A t \in EnsTasks :
          /\ (ensPc[t] = "start" /\ ensPc'[t] # "start"
                /\ StreamNameOf(ensIn[t]) \in ensured[ensIn[t].proc]) =>
                /\ ensPc'[t] = "done"
                /\ ensOut'[t] = [kind |-> "return", name |-> StreamNameOf(ensIn[t])]
                /\ jsStreams' = jsStreams
          /\ (ensPc[t] = "info1_r" /\ ensPc'[t] # "info1_r" /\ ensResp[t].ok) =>
                /\ ensPc'[t] = "done"
                /\ ensName[t] \in ensured'[ensIn[t].proc]
          /\ (ensPc'[t] = "add" /\ ensPc[t] # "add") =>
                /\ ensPc[t] = "info1_r"
                /\ ~ensResp[t].ok
          /\ (EnsAsking(ensPc'[t]) /\ ensPc[t] = "start") =>
                ensName'[t] \notin ensured[ensIn[t].proc]]_vars

\* one call has returned the name and left it in the cache of its process, and a
\* call of the same process for another name is at its streams.add
C30_Witness ==
    \E t, u \in EnsTasks :
        /\ ensPc[t] = "done"
        /\ ensOut[t].kind = "return"
        /\ ensIn[u].proc = ensIn[t].proc
        /\ ensName[t] \in ensured[ensIn[t].proc]
        /\ ensPc[u] = "add"
        /\ ensName[u] \notin ensured[ensIn[u].proc]

(***************************************************************************)
(* Claims about _streamNameForSubject()                                    *)
(***************************************************************************)
\* the task has computed its stream name from its subject alone
EnsNamedBySubject(t) ==
    /\ ensPc[t] \notin {"idle", "start"}
    /\ ~ensIn[t].streamName.has

\* C24: the stream name made from a subject is always the same for the same
\* subject, and is never the same for two different subjects
C24_StreamNameDeterministicAndDistinct ==
    \A t, u \in EnsTasks :
        (EnsNamedBySubject(t) /\ EnsNamedBySubject(u)) =>
            (ensIn[t].subject = ensIn[u].subject <=> ensName[t] = ensName[u])

(***************************************************************************)
(* Claims about messages without a reply subject                           *)
(***************************************************************************)
\* the loop of servicePersist() has done its part for the message it took
DurableProcessed(m) == loopPc[m] \in {"ack", "waiting"} /\ loopLog[m] # <<>>

\* C26: for a message without a reply subject the loop of servicePersist() never
\* calls m.respond, whether the decode failed, the handler returned or the handler
\* threw, and it acknowledges the message
C26_NoReplySubjectNoRespond ==
    \A m \in Methods :
        (DurableProcessed(m) /\ ~loopMsg[m].reply.has) =>
            /\ ~LogHas(loopLog[m], "respond")
            /\ LogHas(loopLog[m], "ack")

(***************************************************************************)
(* Claims about the order of a registration of servicePersist()            *)
(***************************************************************************)
\* the consumer servicePersist() makes for the method its for loop is at
DurableConsumer ==
    [stream |-> ensName[1],
     durable_name |-> DurableNameFor(S_math, RegMethod),
     ack_policy |-> "explicit"]

\* C28: a registration of servicePersist() ensures the stream, then subscribes, then
\* runs its loop: the loop of a method exists, and its handler is called, only after
\* ensureStreamForSubject has returned and js.subscribe has resolved; when the first
\* js.subscribe rejects, the consumer is added with ack_policy explicit under the
\* durable name of the method and js.subscribe is called once more; when that
\* rejects too, the registration fails with that error and the method has no
\* subscription and no loop
C28_ProvisionSubscribeRun ==
    /\ [](loopPc[S_add] # "none" =>
            /\ regPc = "done"
            /\ StreamNameForSubject(SubjectFor(S_math, S_add)) \in ensured[1]
            /\ \E st \in jsStreams : st.name = StreamNameForSubject(SubjectFor(S_math, S_add)))
    /\ [][(loopPc[S_add] = "none" /\ loopPc'[S_add] # "none") =>
            /\ regPc \in {"subscribe1", "subscribe2"}
            /\ loopPc'[S_add] = "waiting"
            /\ S_add \in subs']_vars
    /\ [][(regPc # "subscribe1" /\ regPc' = "subscribe1") =>
            /\ regPc = "ensure"
            /\ ensOut[1].kind = "return"]_vars
    /\ [][(regPc # "consumer" /\ regPc' = "consumer") => regPc = "subscribe1"]_vars
    /\ [][(regPc # "subscribe2" /\ regPc' = "subscribe2") =>
            /\ regPc = "consumer"
            /\ DurableConsumer \in consumers']_vars
    /\ [][(regPc = "subscribe2" /\ regPc' # "subscribe2") =>
            \/ regPc' = "done" /\ RegMethod \in subs'
            \/ /\ regPc' = "failed"
               /\ regOut' = [kind |-> "throw", err |-> BrokerError("subscribe", "unavailable"),
                             method |-> RegMethod]
               /\ RegMethod \notin subs'
               /\ loopPc'[RegMethod] = "none"]_vars

\* the first js.subscribe rejected, the consumer was added, the second js.subscribe
\* resolved, and the handler of the method has been called
C28_Witness ==
    /\ consumers # {}
    /\ regPc = "done"
    /\ loopPc[S_add] = "handler"

(***************************************************************************)
(* Claims about the subject of a method                                    *)
(***************************************************************************)
HasDot(str) == \E i \in 1..Len(str) : str[i] = "."
DotFree(pair) == ~HasDot(pair.name) /\ ~HasDot(pair.method)
SubjectsMade == evalOut # <<>>

\* C23 as stated: the subject of a method depends on the service name and the method
\* name alone, and two different (service, method) pairs never have the same subject
C23_SubjectForInjective ==
    SubjectsMade =>
        (evalIn[1] = evalIn[2] <=> evalOut[1] = evalOut[2])

\* C23: the subject of a method is the service name, a dot and the method name,
\* and depends on them alone; two different (service, method) pairs whose names
\* hold no dot never have the same subject
C23_SubjectForInjectiveOnTokens ==
    SubjectsMade =>
        /\ \A i \in 1..2 : evalOut[i] = evalIn[i].name \o <<".">> \o evalIn[i].method
        /\ (evalIn[1] = evalIn[2] => evalOut[1] = evalOut[2])
        /\ (DotFree(evalIn[1]) /\ DotFree(evalIn[2]) /\ evalIn[1] # evalIn[2]) =>
               evalOut[1] # evalOut[2]

\* the subjects of ("ab", "c") and of ("a", "bc") have been made, and differ
C23_Witness ==
    /\ SubjectsMade
    /\ evalIn[1] = [name |-> <<"a", "b">>, method |-> <<"c">>]
    /\ evalIn[2] = [name |-> <<"a">>, method |-> <<"b", "c">>]
    /\ evalOut[1] # evalOut[2]

(***************************************************************************)
(* Claims about the queue group of a subscription                          *)
(***************************************************************************)
\* C25: the queue group the caller asks for reaches nc.subscribe as it is: service()
\* subscribes each method with serviceOpts.queue when one is given (not undefined,
\* not null) and with the service name when none is, and on() passes its opts, the
\* queue among them, as they are
C25_QueueGroupAsAsked ==
    \A i \in 1..Len(subCalls) :
        LET c == subCalls[i] IN
        /\ c.api = "service" =>
              c.opts.queue = (IF c.asked.queue \in {Undef, Null}
                              THEN Text(c.name) ELSE c.asked.queue)
        /\ c.api = "on" => c.opts = c.asked

\* service('math', { add, sub }, { queue: 'workers' }) has subscribed both methods
\* in the queue group workers
C25_Witness ==
    /\ Len(subCalls) = 2
    /\ \A i \in 1..2 :
          /\ subCalls[i].api = "service"
          /\ subCalls[i].asked.queue = Text(S_workers)
          /\ subCalls[i].opts.queue = Text(S_workers)
    /\ subCalls[1].subject # subCalls[2].subject

(***************************************************************************)
(* Claims about this._subs                                                 *)
(***************************************************************************)
\* the methods and subjects whose loop has been started and has not ended
LiveLoops == {m \in Methods : loopPc[m] \notin {"none", "closed"}}
\* the reply subscription of the callPersist() in flight, until its finally block
\* has drained it
LiveReplySubs == IF cpReplySub = "open" THEN {ReplyInbox} ELSE {}

C22_DrainEmptiesRegistry ==
    drainPc = "drained" => subs = {}

\* C29: a subscription leaves this._subs only when no handler of it runs, at
\* shutdown as at any other time: while the handler of a message runs, or its ack
\* is awaited, the subscription is in this._subs; and a loop that has ended takes
\* no further message
C29_RemovedOnlyAfterHandler ==
    /\ [](\A m \in Methods : loopPc[m] \in {"handler", "ack"} => m \in subs)
    /\ [][\A m \in Methods :
            /\ (m \in subs /\ m \notin subs') => loopPc[m] = "waiting"
            /\ loopPc[m] = "closed" =>
                  /\ loopPc'[m] = "closed"
                  /\ loopLog'[m] = loopLog[m]
                  /\ loopMsg'[m] = loopMsg[m]]_vars

\* drain() has completed while the handler of a method of servicePersist() runs,
\* and its subscription is still in this._subs
C29_Witness ==
    /\ drainPc = "drained"
    /\ loopKind[S_add] = "persist"
    /\ loopPc[S_add] = "handler"
    /\ S_add \in subs

(***************************************************************************)
(* Claims about the loops of two methods                                   *)
(***************************************************************************)
\* C27: the loops of two methods of a service, of service() or of servicePersist(),
\* run each by itself: while the handler of math.sub is in flight, and even if it
\* never returns, a message delivered for math.add is taken by the loop of math.add,
\* handled and answered, unless the subscription of math.add itself ends; and a
\* step of one loop leaves the other loop as it is
C27_LoopsIndependent ==
    /\ \A n \in 0..(MaxMsgs - 1) :
          (loopPc[S_sub] = "handler" /\ runTaken = n /\ runArrived > n)
          ~> \/ /\ runTaken > n
                /\ loopPc[S_add] = "waiting"
                /\ Finished(runKind, loopLog[S_add])
                /\ loopLog[S_add] # <<>>
             \/ loopPc[S_add] = "closed"
    /\ [][loopLog'[S_add] # loopLog[S_add] =>
            /\ loopPc'[S_sub] = loopPc[S_sub]
            /\ loopLog'[S_sub] = loopLog[S_sub]]_vars

\* the handler of math.sub is still in flight, and the loop of math.add has called
\* its handler for the last of its messages, answered and is waiting again
C27_Witness ==
    /\ loopPc[S_sub] = "handler"
    /\ loopLog[S_sub] = <<HandlerCalled(Num(5))>>
    /\ runTaken = MaxMsgs
    /\ loopPc[S_add] = "waiting"
    /\ LogHas(loopLog[S_add], "handler_returned")
    /\ \E i \in 1..Len(loopLog[S_add]) :
          loopLog[S_add][i].ev = "respond" /\ loopLog[S_add][i].sent

(***************************************************************************)
(* Claims about the acknowledgement and the reply of a message             *)
(***************************************************************************)
\* C36: for every message a durable loop has taken, m.ack() is called once and
\* m.nak() never: not before the handler has settled, and once from then on,
\* whether the payload could be decoded, the handler returned or threw, the
\* reply was sent, was not asked for or threw, and the acknowledgement itself
\* resolved or was rejected.
C36_AckOnceNakNever ==
    \A m \in Methods :
       loopLog[m] # <<>> =>
          LET log == loopLog[m] IN
          /\ LogCount(log, "nak") = 0
          /\ LogCount(log, "ack") = (IF loopPc[m] = "handler" THEN 0 ELSE 1)
          /\ loopPc[m] = "handler" => LogOutcome(log) = "none"
          /\ loopPc[m] # "handler" => LogOutcome(log) # "none"
          /\ LogCount(log, "settled") + LogCount(log, "settle_failed")
                = (IF loopPc[m] \in {"handler", "ack"} THEN 0 ELSE 1)

\* a handler threw, the reply to it threw as well, the acknowledgement was called
\* and was rejected, and the loop waits for its next message
C36_Witness ==
    \E m \in Methods :
       /\ loopPc[m] = "waiting"
       /\ LogHas(loopLog[m], "handler_threw")
       /\ \E i \in 1..Len(loopLog[m]) : loopLog[m][i].ev = "respond" /\ loopLog[m][i].threw
       /\ LogHas(loopLog[m], "settle_failed")
       /\ LogCount(loopLog[m], "ack") = 1

\* the envelopes that m.respond published for the message in hand
EnvelopesSent(log) == {i \in 1..Len(log) : log[i].ev = "respond" /\ log[i].sent}
\* an envelope of one variant: Ok with the result, or Err with a message
OneVariant(env) ==
    /\ env.__ok # env.__error
    /\ env.__ok => ~env.message.has
    /\ env.__error => env.message.has /\ env.result = Undef

\* C37: for every message taken by a loop of service() or of servicePersist(), at
\* most one reply envelope is published, and only to a message with a reply
\* subject; every envelope handed to m.respond is of exactly one of the two
\* variants, Ok carrying the handler's result or Err carrying a message; a second
\* m.respond is called for a message only after the first one threw.
C37_AtMostOneReplyOfOneVariant ==
    \A m \in Methods :
       LET log == loopLog[m]
           calls == {i \in 1..Len(log) : log[i].ev = "respond"}
       IN /\ Cardinality(EnvelopesSent(log)) <= 1
          /\ EnvelopesSent(log) # {} => loopMsg[m].reply.has
          /\ \A i \in calls : OneVariant(log[i].env)
          /\ \A i \in calls :
                log[i].env.__ok =>
                   /\ LogHas(log, "handler_returned")
                   /\ log[i].env.result = log[LogIdx(log, "handler_returned")].env
          /\ \A i, j \in calls : i < j => log[i].threw /\ ~log[i].sent
          /\ runKind = "on" => calls = {}

\* service(): the handler returned, the reply with the Ok envelope threw, and the
\* Err envelope sent in its place went out
C37_Witness ==
    \E m \in Methods :
       /\ runKind = "service"
       /\ loopPc[m] = "waiting"
       /\ LogHas(loopLog[m], "handler_returned")
       /\ LogCount(loopLog[m], "respond") = 2
       /\ Cardinality(EnvelopesSent(loopLog[m])) = 1
       /\ \E i \in EnvelopesSent(loopLog[m]) : loopLog[m][i].env.__error

(***************************************************************************)
(* Claims about the streams and the cache of ensureStreamForSubject()      *)
(***************************************************************************)
\* C32: when ensureStreamForSubject(subject, opts) has returned a stream name, the
\* Broker holds a stream of that name whose subjects include the subject
C32_ReturnedStreamCoversSubject ==
    \A t \in EnsTasks :
       (ensPc[t] = "done" /\ ensOut[t].kind = "return") =>
          \E st \in jsStreams :
             /\ st.name = ensOut[t].name
             /\ ensIn[t].subject \in st.subjects

(***************************************************************************)
(* Claims about the connection, the JetStream contexts and the shutdown    *)
(***************************************************************************)
\* C38: an instance makes at most one connection between two shutdowns, also when
\* several operations await connect() at the same time, and every subscription of
\* the instance is on the connection held in this.nc
C38_OneConnectionHoldsAllSubscriptions ==
    /\ connsSince <= 1
    /\ subsOn \subseteq {nc}

\* C39: whenever the instance is connected and this.js and this.jsm are set, both
\* were obtained from the connection held in this.nc, also after a drain() or
\* close() and a new connect()
C39_JetStreamOfCurrentConnection ==
    (nc # 0 /\ js # 0 /\ jsm # 0) => (js = nc /\ jsm = nc)

\* a drain() or close() is awaiting the connection
ShutdownInFlight(pc) == pc \in {"nc_drain", "nc_close", "closing"}

\* C40: drain() and close() never throw: called on a connected instance they
\* await nc.drain() or nc.close(), drain() goes on to nc.close() where nc.drain()
\* rejects, and however these settle the call returns with this.nc set to null;
\* called on an instance that holds no connection they return at once and change
\* nothing, so that a repeated call is safe.
C40_ShutdownNeverThrowsAndDisconnects ==
    /\ [](drainPc \in {"idle", "nc_drain", "nc_close", "closing",
                       "drained", "closed", "returned"})
    /\ [][(ShutdownInFlight(drainPc) /\ ~ShutdownInFlight(drainPc'))
             => (drainPc' \in {"drained", "closed"} /\ nc' = 0)]_vars
    /\ [][(drainPc = "nc_drain" /\ drainPc' # drainPc)
             => drainPc' \in {"drained", "nc_close"}]_vars
    /\ [][(drainPc = "idle" /\ drainPc' # "idle") =>
             IF nc = 0
             THEN /\ drainPc' = "returned"
                  /\ UNCHANGED <<nc, nConnects, connPc, subsOn, js, jsm>>
             ELSE /\ drainPc' \in {"nc_drain", "closing"}
                  /\ nc' = nc]_vars

\* a shutdown has disconnected the instance, and a further drain() or close() has
\* returned at once
C40_Witness ==
    /\ drainPc = "returned"
    /\ shutCalls >= 2
    /\ nConnects >= 1
    /\ nc = 0

\* a request of task t for the stream n has been answered with success
EnsAnsweredOk(t, n) ==
    /\ ensPc[t] \in {"info1_r", "add_r", "info2_r"}
    /\ ensName[t] = n
    /\ ensResp[t].ok

\* C31: the cache of ensured streams only grows, whatever ensureStreamForSubject,
\* callPersist(), servicePersist(), drain() and close() do, and a name enters the
\* cache of a process only in the step in which a task of that process takes the
\* successful answer to its streams.info or streams.add for that name
C31_CacheAppendOnlyAndSound ==
    /\ [][\A p \in Procs : ensured[p] \subseteq ensured'[p]]_vars
    /\ [][\A p \in Procs : \A n \in ensured'[p] \ ensured[p] :
             \E t \in EnsTasks :
                /\ ensIn[t].proc = p
                /\ EnsAnsweredOk(t, n)
                /\ ensPc'[t] = "done"
                /\ ensOut'[t] = [kind |-> "return", name |-> n]]_vars

\* the service and the caller have the stream name in their caches, a call has
\* been made, and a drain() has completed since
C31_Witness ==
    /\ drainPc = "drained"
    /\ nc = 0
    /\ cpCalls > 0
    /\ \A p \in Procs : ensured[p] # {}

ReplySubReady == cpReplySub = "open" /\ ReplyInbox \in subs

\* C33: callPersist() ensures the stream, then makes its reply subscription and
\* adds it to this._subs, and only then publishes: while the stream is being
\* ensured there is no reply subscription and nothing is published; the request
\* enters the stream only when ensureStreamForSubject has returned the name of a
\* stream the Broker holds and the reply subscription named in the request is
\* ready; and a reply that reaches the inbox while the call waits is taken by the
\* call, never lost.
C33_EnsureSubscribeThenPublish ==
    /\ [](cpPc = "ensure" => (cpReplySub = "none" /\ cpPubs = 0))
    /\ [](cpPc \in {"publish", "wait"} => ReplySubReady)
    /\ [][jsLog' # jsLog =>
             /\ ensOut[2] = [kind |-> "return", name |-> StreamNameForSubject(cpIn.subject)]
             /\ ensOut[2].name \in ensured[2]
             /\ \E st \in jsStreams : st.name = ensOut[2].name
             /\ ReplySubReady
             /\ jsLog' = Append(jsLog, jsLog'[Len(jsLog')])
             /\ jsLog'[Len(jsLog')].reply = Str(ReplyInbox)]_vars
    /\ [][(inboxWire # <<>> /\ inboxWire' = Tail(inboxWire) /\ cpPc = "wait"
              /\ Head(inboxWire).to = ReplyInbox)
             => (cpPc' = "done" /\ cpGot' = [kind |-> "reply", data |-> Head(inboxWire).data])]_vars

\* the service has answered at once: its reply is on the way to the inbox while
\* the call, whose request is in the stream, waits with its reply subscription
C33_Witness ==
    /\ cpPc = "wait"
    /\ ReplySubReady
    /\ jsLog # <<>>
    /\ inboxWire # <<>>
    /\ Head(inboxWire).to = ReplyInbox

\* the request with number n of the stream has been through the loop of math.add
\* and has been acknowledged
RequestAcked(n) ==
    \/ delivered[S_add] > n
    \/ /\ delivered[S_add] = n
       /\ loopPc[S_add] = "waiting"
       /\ LogCount(loopLog[S_add], "ack") = 1
       /\ LogCount(loopLog[S_add], "nak") = 0

\* C35: a callPersist() settles once: what it has settled with stays until its
\* caller has it, and a call that timed out has thrown RPC_TIMEOUT and yields
\* nothing else; a reply that reaches an inbox whose call does not wait for it, a
\* call that has timed out or an earlier call, is dropped and leaves the call in
\* flight as it is; and the request of a timed-out call stays in the stream and is
\* taken by the loop of the durable service and acknowledged, unless that loop ends.
C35_SettlesOnceLateReplyDropped ==
    /\ [][(cpPc = "done" /\ cpPc' = "done") => (cpGot' = cpGot /\ cpOut' = cpOut)]_vars
    /\ [](cpGot.kind = "timeout" =>
             /\ cpPc = "done"
             /\ cpOut.kind = "throw"
             /\ CodeIs(cpOut.err.code, "RPC_TIMEOUT"))
    /\ [][(/\ inboxWire # <<>>
           /\ inboxWire' = Tail(inboxWire)
           /\ ~(cpPc = "wait" /\ Head(inboxWire).to = ReplyInbox))
          => UNCHANGED <<cpPc, cpGot, cpOut, cpReplySub, cpTimer, cpCalls, subs>>]_vars
    /\ [][IsPrefix(jsLog, jsLog') /\ delivered'[S_add] >= delivered[S_add]]_vars
    /\ \A n \in 1..MaxPersistCalls :
          (/\ cpGot.kind = "timeout"
           /\ Len(jsLog) = n
           /\ loopPc[S_add] \notin {"none", "closed"})
             ~> (RequestAcked(n) \/ loopPc[S_add] = "closed")

\* the call has timed out; the service has taken its request, answered and
\* acknowledged it, and the reply, still on its way, comes too late
C35_Witness ==
    /\ cpPc = "done"
    /\ cpGot.kind = "timeout"
    /\ inboxWire # <<>>
    /\ Head(inboxWire).to = ReplyInbox
    /\ delivered[S_add] = Len(jsLog)
    /\ loopPc[S_add] = "waiting"
    /\ LogHas(loopLog[S_add], "settled")

====
